---- MODULE Spec2Model ----
(***************************************************************************)
(* Model of the four page-patching scripts of the TireOps repository:      *)
(*   convert-modals.py, convert-to-modal.py, remove-inline-edit.py and     *)
(*   update-inventory-edit.py.                                             *)
(*                                                                         *)
(* Text is a sequence of atoms.  "LF" and "CR" are the two line-break      *)
(* characters.  Every other atom is the text of one whole line, named      *)
(* after the source line that holds that text in one of the scripts'       *)
(* literals: "uie146" is the text on line 146 of update-inventory-edit.py, *)
(* "c2m73" on line 73 of convert-to-modal.py, "cm124" on line 124 of       *)
(* convert-modals.py (a text that several literals share is named after    *)
(* its first literal in that order).  An empty line has no atom.  A        *)
(* Python str is a sequence of atoms, a Python list of str is a sequence   *)
(* of such sequences.  List indices are Python's (0-based); None is        *)
(* modelled by -1.                                                         *)
(***************************************************************************)

\* Atoms that are not named after a source line, and their text between the
\* bars:
\*   imp_react       |import { useEffect, useState, Suspense } from 'react';|
\*   imp_motion      |import { motion } from 'framer-motion';|
\*   imp_lucide_inv  |import { Package, Plus, Search, Download, Trash2, Edit, Check, Loader2 } from 'lucide-react';|
\*   imp_lucide_cus  |import { Users, Plus, Search, Edit, Eye, Trash2 } from 'lucide-react';|
\*   supabase        |  const supabase = createClient();|
\*   deps_inv        |  }, [searchTerm, stockFilter, inventory]);|
\*   deps_cus        |  }, [searchTerm, customers]);|
\*   form_marker     |        {/* Form */}|
\*   closer8         |        )}|
\*   anchor_edit     |{editingTireId === tire.id ? (|
\*   ternary_else    |) : (|
\*   regular_view    |/* Regular View */|
\*   deps_inv_semi   |  }, [searchTerm, stockFilter, inventory];|
\*   form_tag_old    |            <form onSubmit={handleSubmit} className="space-y-6">|
\*   onclick_open    |                  onClick={|
\*   brace           |}|
\*   x               |x|
\*   open_brace      |{|
\*   supabase4       |    const supabase = createClient();|
\*   closer12        |            )}|
\*   closer14        |              )}|
\*   field           |              <input type="text" />|
\*   onclick_hide    |                  onClick={() => setShowForm(false)}|
\*   onclick_start   |                  onClick={() => {|
\*   onclick_end     |                  }}|
\*   save_head       |  async function saveEditedTire() {|
\*   card_open       |            <div key={tire.id}>|
\*   edit_div        |                <div className="space-y-4">|
\*   edit_input      |                  <input value={formData.brand} />|
\*   div_close16     |                </div>|
\*   view_div        |                  <div>{tire.brand}</div>|
\*   div_close12     |            </div>|
\*   map_close       |          ))}|
\*   anchor_regular  |{editingTireId === tire.id ? ( /* Regular View */|
\* Lines that only two processes working on one file make are named after
\* what they are made of: name[i:j] is bytes i .. j-1 of the line name (i or j
\* left out: from its start, to its end), a+b is the text of a followed by
\* the text of b (slices bind tighter than +), and NUL*n is n bytes of
\* value 0.
EXTENDS Integers, Sequences, FiniteSets, Bags, TLC

LF == "LF"
CR == "CR"
None == -1

(***************************************************************************)
(* What the atoms are made of: braces, and which atom's text lies inside   *)
(* which.                                                                  *)
(***************************************************************************)
\* line.count('{') for a line that is the atom
Opens(atom) ==
    CASE atom \in {"anchor_edit", "anchor_regular", "c2m127", "c2m15", "c2m16",
                   "c2m18", "c2m21", "c2m42", "c2m43", "c2m60", "c2m64",
                   "c2m67", "c2m81", "c2m99", "card_open", "cm124", "cm125",
                   "cm126", "cm138", "cm140", "cm153", "cm155", "cm16", "cm165",
                   "cm167", "cm18", "cm180", "cm182", "cm192", "cm194", "cm197",
                   "cm20", "cm252", "cm331", "cm353", "cm365", "cm376", "cm387",
                   "cm408", "edit_input", "form_marker", "form_tag_old",
                   "imp_lucide_cus", "imp_lucide_inv", "imp_motion",
                   "imp_react", "onclick_hide", "onclick_open", "open_brace",
                   "save_head", "uie107", "uie11", "uie115", "uie116", "uie121",
                   "uie122", "uie13", "uie138", "uie139", "uie150", "uie160",
                   "uie168", "uie178", "uie196", "uie210", "uie213", "uie230",
                   "uie38", "uie66", "uie90", "uie92", "uie93", "view_div"} -> 1
      [] atom \in {"c2m35", "c2m36", "c2m38", "c2m46", "c2m47", "c2m48",
                   "c2m56", "c2m66", "c2m75", "c2m76", "c2m77", "c2m79",
                   "cm166", "cm354", "cm366", "cm377", "cm388", "onclick_start",
                   "uie175", "uie199", "uie217", "uie229"} -> 2
      [] atom \in {"c2m100"} -> 3
      [] OTHER -> 0

\* line.count('}') for a line that is the atom
Closes(atom) ==
    CASE atom \in {"brace", "c2m127", "c2m18", "c2m23", "c2m24", "c2m42",
                   "c2m60", "c2m64", "c2m67", "c2m81", "c2m99", "card_open",
                   "closer12", "closer14", "closer8", "cm121[:2]+cm127[17:]",
                   "cm124", "cm126", "cm127", "cm127[17:]", "cm127[7:]",
                   "cm138", "cm140", "cm153", "cm155", "cm16", "cm165", "cm167",
                   "cm18", "cm180", "cm182", "cm182[45:]", "cm182[53:]",
                   "cm192", "cm194", "cm197", "cm20", "cm252", "cm331", "cm353",
                   "cm365", "cm376", "cm387", "cm408", "deps_cus", "deps_inv",
                   "deps_inv_semi", "edit_input", "form_marker", "form_tag_old",
                   "imp_lucide_cus", "imp_lucide_inv", "imp_motion",
                   "imp_react", "map_close", "onclick_hide", "uie107", "uie110",
                   "uie116", "uie121", "uie122", "uie124", "uie138", "uie139",
                   "uie150", "uie160", "uie168", "uie185", "uie196", "uie20",
                   "uie21", "uie210", "uie213", "uie232", "uie73", "uie93",
                   "view_div"} -> 1
      [] atom \in {"c2m35", "c2m36", "c2m38", "c2m46", "c2m47", "c2m48",
                   "c2m56", "c2m66", "c2m75", "c2m76", "c2m77", "c2m79",
                   "cm121[:2]+cm166[92:]", "cm166", "cm166[92:]", "cm354",
                   "cm366", "cm377", "cm388", "onclick_end", "uie186", "uie202",
                   "uie220"} -> 2
      [] atom \in {"c2m100"} -> 3
      [] OTHER -> 0

\* pairs <<a, n>>: the text of atom a contains the text of n, and a # n;
\* listed for the texts n that a script searches for inside one line
ProperContains ==
    { <<"anchor_regular", "anchor_edit">>,
      <<"anchor_regular", "regular_view">>, <<"closer12", "closer8">>,
      <<"closer14", "closer8">>, <<"supabase4", "supabase">> }

\* pairs <<a, b>>: the text of atom a ends with the text of b, and a # b;
\* listed for the b that are the first line of a search text, and for "brace"
ProperSuffix ==
    { <<"c2m127", "brace">>, <<"c2m35", "brace">>, <<"c2m36", "brace">>,
      <<"c2m38", "brace">>, <<"c2m42", "brace">>, <<"c2m46", "brace">>,
      <<"c2m47", "brace">>, <<"c2m48", "brace">>, <<"c2m56", "brace">>,
      <<"c2m60", "brace">>, <<"c2m64", "brace">>, <<"c2m66", "brace">>,
      <<"c2m67", "brace">>, <<"c2m75", "brace">>, <<"c2m76", "brace">>,
      <<"c2m77", "brace">>, <<"c2m79", "brace">>, <<"c2m81", "brace">>,
      <<"c2m99", "brace">>, <<"closer12", "brace">>, <<"closer14", "brace">>,
      <<"closer8", "brace">>, <<"cm121[:2]+cm127[17:]", "brace">>,
      <<"cm121[:2]+cm166[92:]", "brace">>, <<"cm124", "brace">>,
      <<"cm127", "brace">>, <<"cm127[17:]", "brace">>,
      <<"cm127[7:]", "brace">>, <<"cm138", "brace">>, <<"cm153", "brace">>,
      <<"cm165", "brace">>, <<"cm166", "brace">>, <<"cm166[92:]", "brace">>,
      <<"cm167", "brace">>, <<"cm180", "brace">>, <<"cm192", "brace">>,
      <<"cm197", "brace">>, <<"cm331", "brace">>, <<"cm353", "brace">>,
      <<"cm354", "brace">>, <<"cm365", "brace">>, <<"cm366", "brace">>,
      <<"cm376", "brace">>, <<"cm377", "brace">>, <<"cm387", "brace">>,
      <<"cm388", "brace">>, <<"cm408", "brace">>, <<"form_marker", "brace">>,
      <<"map_close", "brace">>, <<"onclick_end", "brace">>,
      <<"onclick_hide", "brace">>, <<"uie110", "brace">>,
      <<"uie124", "brace">>, <<"uie150", "brace">>, <<"uie160", "brace">>,
      <<"uie166", "uie208">>, <<"uie168", "brace">>, <<"uie177", "uie65">>,
      <<"uie186", "brace">>, <<"uie196", "brace">>, <<"uie201", "uie65">>,
      <<"uie202", "brace">>, <<"uie21", "brace">>, <<"uie210", "brace">>,
      <<"uie219", "uie65">>, <<"uie220", "brace">>, <<"uie232", "brace">>,
      <<"uie237", "uie65">> }

\* pairs <<a, b>>: the text of atom a starts with the text of b, and a # b;
\* listed for the b that are the last line of a search text, and for
\* "onclick_open"
ProperPrefix ==
    { <<"c2m24", "uie21">>, <<"c2m67", "onclick_open">>,
      <<"deps_cus", "uie21">>, <<"deps_inv", "uie21">>,
      <<"deps_inv_semi", "uie21">>, <<"onclick_hide", "onclick_open">>,
      <<"onclick_start", "onclick_open">> }

\* needle in text-of-atom
Contains(atom, needle) == atom = needle \/ <<atom, needle>> \in ProperContains

EndsWith(atom, b) == atom = b \/ <<atom, b>> \in ProperSuffix

StartsWith(atom, b) == atom = b \/ <<atom, b>> \in ProperPrefix

(***************************************************************************)
(* Sequence helpers.                                                       *)
(***************************************************************************)
Min(a, b) == IF a < b THEN a ELSE b
Max(a, b) == IF a > b THEN a ELSE b

\* s[a:b] of Python for a list or str s, a and b already normalised to 0..len
Slice(s, a, b) == IF b <= a THEN <<>> ELSE SubSeq(s, a + 1, b)

\* Python's normalisation of one slice bound: negative bounds count from the
\* end, and the result is clamped to 0..len
SliceBound(i, len) == IF i < 0 THEN Max(i + len, 0) ELSE Min(i, len)

\* "for i, x in enumerate(xs): body" over the indices a..b-1, started in
\* loop state st; a body that sets done has executed "break".  The range is
\* walked in halves, first half first, which visits the same indices in the
\* same order.
RECURSIVE Loop(_, _, _, _, _)
Loop(Body(_, _, _), xs, a, b, st) ==
    IF st.done \/ a >= b THEN st
    ELSE IF b = a + 1 THEN Body(st, xs, a)
    ELSE Loop(Body, xs, (a + b) \div 2, b, Loop(Body, xs, a, (a + b) \div 2, st))

FlattenBody(st, ss, i) == [done |-> FALSE, out |-> st.out \o ss[i + 1]]

\* ''.join(ss)
Flatten(ss) == Loop(FlattenBody, ss, 0, Len(ss), [done |-> FALSE, out |-> <<>>]).out

\* does the text t occur in s at 0-based offset k.  Inside t every line
\* must be met in full; the first line of t may be the end of a longer line
\* of s, the last line of t the start of one, and a t of one line may lie
\* anywhere in a line.
AtomMatch(c, a, first, last) ==
    IF a \in {LF, CR} THEN c = a
    ELSE IF first /\ last THEN Contains(c, a)
    ELSE IF first THEN EndsWith(c, a)
    ELSE IF last THEN StartsWith(c, a)
    ELSE c = a

MatchAt(s, t, k) ==
    /\ k + Len(t) <= Len(s)
    /\ \A j \in 1..Len(t) : AtomMatch(s[k + j], t[j], j = 1, j = Len(t))

\* str.find(t, from): offset of the first occurrence at or after from, or None
Find(s, t, from) ==
    LET hits == {k \in from..(Len(s) - Len(t)) : MatchAt(s, t, k)}
    IN  IF hits = {} THEN None ELSE CHOOSE k \in hits : \A m \in hits : k <= m

\* s.count(t): number of non-overlapping occurrences, scanning left to right
RECURSIVE CountFrom(_, _, _)
CountFrom(s, t, from) ==
    LET k == Find(s, t, from)
    IN  IF k = None THEN 0 ELSE 1 + CountFrom(s, t, k + Len(t))

Occurrences(s, t) == CountFrom(s, t, 0)

(***************************************************************************)
(* Text-mode file I/O of Python (open(..., 'r'/'w', encoding='utf-8') with *)
(* the default newline=None, "universal newlines").                        *)
(***************************************************************************)
\* f.read(): CR LF and a lone CR both become LF
DecodeBody(st, bytes, i) ==
    LET c == bytes[i + 1]
    IN  IF c = LF /\ st.cr
        THEN [st EXCEPT !.cr = FALSE]
        ELSE [done |-> FALSE, cr |-> (c = CR),
              out |-> Append(st.out, IF c = CR THEN LF ELSE c)]

Decode(bytes) ==
    Loop(DecodeBody, bytes, 0, Len(bytes),
         [done |-> FALSE, cr |-> FALSE, out |-> <<>>]).out

\* f.write(s): every LF becomes os.linesep
EncodeBody(st, str, i) ==
    [st EXCEPT !.out = st.out \o (IF str[i + 1] = LF THEN st.sep ELSE <<str[i + 1]>>)]

Encode(str, sep) ==
    Loop(EncodeBody, str, 0, Len(str), [done |-> FALSE, sep |-> sep, out |-> <<>>]).out

\* the list of lines of a str, each line keeping its final LF
SplitBody(st, str, i) ==
    IF str[i + 1] = LF
    THEN [done |-> FALSE, lines |-> Append(st.lines, Append(st.cur, LF)), cur |-> <<>>]
    ELSE [st EXCEPT !.cur = Append(st.cur, str[i + 1])]

SplitLines(str) ==
    LET st == Loop(SplitBody, str, 0, Len(str),
                   [done |-> FALSE, lines |-> <<>>, cur |-> <<>>])
    IN  IF st.cur = <<>> THEN st.lines ELSE Append(st.lines, st.cur)

\* f.readlines()
ReadLines(bytes) == SplitLines(Decode(bytes))

\* f.writelines(lines)
WriteLines(lines, sep) == Encode(Flatten(lines), sep)

\* needle in line
InLine(needle, line) == \E j \in 1..Len(line) : Contains(line[j], needle)

CountBody(st, line, i) ==
    [st EXCEPT !.open = st.open + Opens(line[i + 1]),
               !.close = st.close + Closes(line[i + 1])]

BraceCounts(line) ==
    Loop(CountBody, line, 0, Len(line), [done |-> FALSE, open |-> 0, close |-> 0])

\* line.count('{')
CountOpen(line) == BraceCounts(line).open

\* line.count('}')
CountClose(line) == BraceCounts(line).close

(***************************************************************************)
(* update-inventory-edit.py: the ten (search text, replacement) pairs.     *)
(***************************************************************************)
PatchIds == 1..10

\* the search text of the k-th content.replace
PatchOld(k) ==
    CASE k = 1 ->
            <<"uie11", LF, "uie12", LF, "uie13", LF, "uie14", LF, "uie15", LF,
              "uie16", LF, "uie17", LF, "uie18", LF, "uie19", LF, "uie20", LF,
              "uie21">>
      [] k = 2 ->
            <<"uie38", LF, "uie39", LF, "uie13", LF, "uie41", LF, "uie42", LF,
              "uie43", LF, "uie44", LF, "uie45", LF, "uie46", LF, "uie20", LF,
              "uie21">>
      [] k = 3 ->
            <<"uie65", LF, "uie66", LF, "uie67", LF, "uie68", LF, "uie69", LF,
              "uie70", LF, "uie71", LF, "uie72", LF, "uie73", LF, "uie74">>
      [] k = 4 ->
            <<"uie90", LF, "uie91", LF, "uie92", LF, "uie93", LF, LF, "uie95",
              LF, LF, "uie66", LF, "uie67", LF, "uie68", LF, "uie69", LF,
              "uie70", LF, "uie71", LF, "uie72", LF, "uie73", LF, "uie76", LF,
              "uie74", LF, "uie107", LF, "uie108", LF, "uie109", LF, "uie110",
              LF, "uie21">>
      [] k = 5 ->
            <<"uie146", LF, "uie147", LF, "uie148">>
      [] k = 6 ->
            <<"uie156", LF, "uie157", LF, "uie158">>
      [] k = 7 ->
            <<"uie166", LF, "uie167", LF, "uie168", LF, "uie169", LF, "uie156",
              LF, "uie171", LF, "uie158">>
      [] k = 8 ->
            <<"uie195", LF, "uie196", LF, "uie197">>
      [] k = 9 ->
            <<"uie208", LF, "uie209", LF, "uie210", LF, "uie211", LF, "uie212",
              LF, "uie213", LF, "uie214">>
      [] k = 10 ->
            <<"uie229", LF, "uie230", LF, "uie231", LF, "uie232", LF,
              "onclick_end">>

\* the replacement text of the k-th content.replace
PatchNew(k) ==
    CASE k = 1 ->
            <<"uie11", LF, "uie12", LF, "uie13", LF, "uie14", LF, "uie15", LF,
              "uie16", LF, "uie17", LF, "uie18", LF, "uie19", LF, "uie20", LF,
              "uie32", LF, "uie21">>
      [] k = 2 ->
            <<"uie38", LF, "uie39", LF, "uie51", LF, "uie13", LF, "uie41", LF,
              "uie42", LF, "uie43", LF, "uie44", LF, "uie45", LF, "uie46", LF,
              "uie20", LF, "uie21">>
      [] k = 3 ->
            <<"uie65", LF, "uie76", LF, "uie66", LF, "uie67", LF, "uie68", LF,
              "uie69", LF, "uie70", LF, "uie71", LF, "uie72", LF, "uie73", LF,
              "uie74">>
      [] k = 4 ->
            <<"uie90", LF, "uie91", LF, "uie92", LF, "uie115", LF, "uie116",
              LF, "uie117", LF, "uie118", LF, "uie119", LF, "uie120", LF,
              "uie121", LF, "uie122", LF, "uie120", LF, "uie124", LF, LF,
              "uie65", LF, "uie66", LF, "uie67", LF, "uie68", LF, "uie69", LF,
              "uie70", LF, "uie71", LF, "uie72", LF, "uie73", LF, "uie76", LF,
              "uie74", LF, "uie107", LF, "uie138", LF, "uie139", LF, "uie110",
              LF, "uie21">>
      [] k = 5 ->
            <<"uie146", LF, "uie150", LF, "uie148">>
      [] k = 6 ->
            <<"uie156", LF, "uie160", LF, "uie158">>
      [] k = 7 ->
            <<"uie166", LF, "uie167", LF, "uie175", LF, "uie176", LF, "uie177",
              LF, "uie178", LF, "uie179", LF, "uie180", LF, "uie181", LF,
              "uie182", LF, "uie183", LF, "uie184", LF, "uie185", LF, "uie186",
              LF, "uie169", LF, "uie156", LF, "uie171", LF, "uie158">>
      [] k = 8 ->
            <<"uie195", LF, "uie199", LF, "uie200", LF, "uie201", LF, "uie202",
              LF, "uie197">>
      [] k = 9 ->
            <<"uie208", LF, "uie209", LF, "uie217", LF, "uie218", LF, "uie219",
              LF, "uie220", LF, "uie211", LF, "uie212", LF, "uie213", LF,
              "uie214">>
      [] k = 10 ->
            <<"uie229", LF, "uie230", LF, "uie231", LF, "uie237", LF, "uie232",
              LF, "onclick_end">>

(***************************************************************************)
(* convert-to-modal.py: patterns and replacement texts.                    *)
(***************************************************************************)
scroll_lock_effect ==
    <<LF, "c2m15", LF, "c2m16", LF, "c2m17", LF, "c2m18", LF, "c2m19", LF,
      "uie110", LF, "c2m21", LF, "c2m19", LF, "c2m23", LF, "c2m24", LF>>

\* r'(  }, \[searchTerm, stockFilter, inventory\];)': literal text in one
\* group; it ends in "];" where the page has "]);"
pattern ==
    <<"deps_inv_semi">>

\* the regular expressions below are literal text (every special character
\* is escaped); the text is given unescaped
old_form ==
    <<"form_marker", LF, "c2m43", LF, "c2m34", LF, "c2m35", LF, "c2m36", LF,
      "c2m37", LF, "c2m38", LF, "c2m39", LF, "c2m40">>

new_form ==
    <<"c2m42", LF, "c2m43", LF, "c2m44", LF, "c2m45", LF, "c2m46", LF, "c2m47",
      LF, "c2m48", LF, "uie195", LF, "uie196", LF, "uie197", LF, "c2m52", LF,
      LF, "c2m54", LF, "c2m55", LF, "c2m56", LF, "c2m57", LF, "c2m58", LF,
      "c2m59", LF, "c2m60", LF, "c2m61", LF, "c2m62", LF, "c2m63", LF, "c2m64",
      LF, "c2m65", LF, "c2m66", LF, "c2m67", LF, "uie229", LF, "uie230", LF,
      "uie231", LF, "uie232", LF, "onclick_end", LF, "c2m73", LF, "c2m74", LF,
      "c2m75", LF, "c2m76", LF, "c2m77", LF, "c2m78", LF, "c2m79", LF, "c2m80",
      LF, "c2m81", LF, "c2m82", LF, "uie146", LF, "uie147", LF, "uie148", LF,
      "uie208", LF, "uie209", LF, "uie210", LF, "uie211", LF, "uie212", LF,
      "uie213", LF, "uie214", LF, "c2m93">>

old_form_tag ==
    <<"form_tag_old">>

new_form_tag ==
    <<"c2m99", LF, "c2m100", LF, "c2m101">>

\* old_buttons is literal text but for one .*? (under re.DOTALL) inside the
\* onClick line: the text up to and including "onClick={" ...
old_buttons_head ==
    <<"c2m106", LF, "c2m107", LF, "c2m108", LF, "onclick_open">>

\* ... and the text from the "}" that ends the onClick line
old_buttons_tail ==
    <<"brace", LF, "c2m110", LF, "c2m73", LF, "c2m112", LF, "c2m113", LF,
      "c2m107", LF, "c2m115", LF, "c2m116", LF, "c2m73", LF, "c2m118", LF,
      "c2m113", LF, "c2m146", LF, "c2m121", LF, "c2m122", LF, "closer8">>

new_buttons ==
    <<"c2m125", LF, LF, "c2m127", LF, "c2m128", LF, "uie166", LF, "uie167", LF,
      "uie168", LF, "uie169", LF, "uie156", LF, "uie171", LF, "uie158", LF,
      "uie166", LF, "c2m137", LF, "c2m138", LF, "uie156", LF, "uie157", LF,
      "uie158", LF, "c2m125", LF, "c2m143", LF, "c2m144", LF, "div_close16",
      LF, "c2m146", LF, "div_close12", LF, "c2m148", LF, "closer8">>

(***************************************************************************)
(* convert-modals.py: the inserted and replacing texts.                    *)
(***************************************************************************)
Pages == {"inventory", "customers"}

\* the text Step 2 inserts
modal_ref ==
    <<"cm26", LF, LF>>

\* modal_form of convert_inventory_page and of convert_customers_page
modal_form(page) ==
    IF page = "inventory"
    THEN
        <<"c2m42", LF, "c2m43", LF, "c2m44", LF, "c2m45", LF, "c2m46", LF,
          "c2m47", LF, "c2m48", LF, "uie195", LF, "uie196", LF, "uie197", LF,
          "c2m52", LF, LF, "c2m54", LF, "c2m55", LF, "c2m56", LF, "c2m57", LF,
          "c2m58", LF, "c2m59", LF, "c2m60", LF, "c2m61", LF, "c2m62", LF,
          "c2m63", LF, "c2m64", LF, "c2m65", LF, "c2m66", LF, "c2m67", LF,
          "uie229", LF, "uie230", LF, "uie231", LF, "uie232", LF,
          "onclick_end", LF, "c2m73", LF, "c2m74", LF, "c2m75", LF, "c2m76",
          LF, "c2m77", LF, "c2m78", LF, "c2m79", LF, "c2m80", LF, "c2m81", LF,
          "c2m82", LF, "uie146", LF, "uie147", LF, "uie148", LF, "uie208", LF,
          "uie209", LF, "uie210", LF, "uie211", LF, "uie212", LF, "uie213", LF,
          "uie214", LF, "c2m93", LF, LF, "c2m99", LF, "c2m100", LF, "c2m101",
          LF, "cm116", LF, "cm117", LF, "cm118", LF, "cm119", LF, "cm120", LF,
          "cm121", LF, "cm122", LF, "cm123", LF, "cm124", LF, "cm125", LF,
          "cm126", LF, "cm127", LF, "cm128", LF, "cm129", LF, "cm130", LF,
          "cm117", LF, "cm118", LF, "cm133", LF, "cm120", LF, "cm121", LF,
          "cm122", LF, "cm123", LF, "cm138", LF, "cm125", LF, "cm140", LF,
          "cm127", LF, "cm128", LF, "cm129", LF, "cm130", LF, "cm117", LF,
          "cm118", LF, "cm147", LF, "cm120", LF, "cm121", LF, "cm122", LF,
          "cm123", LF, "cm152", LF, "cm153", LF, "cm125", LF, "cm155", LF,
          "cm127", LF, "cm128", LF, "cm129", LF, "cm130", LF, "cm117", LF,
          "cm118", LF, "cm162", LF, "cm120", LF, "cm164", LF, "cm165", LF,
          "cm166", LF, "cm167", LF, "cm168", LF, "cm129", LF, "cm130", LF,
          "cm117", LF, "cm118", LF, "cm173", LF, "cm120", LF, "cm121", LF,
          "cm176", LF, "cm123", LF, "cm178", LF, "cm179", LF, "cm180", LF,
          "cm125", LF, "cm182", LF, "cm127", LF, "cm128", LF, "cm129", LF,
          "cm130", LF, "cm187", LF, "cm118", LF, "cm189", LF, "cm120", LF,
          "cm191", LF, "cm192", LF, "cm125", LF, "cm194", LF, "cm127", LF,
          "cm196", LF, "cm197", LF, "cm129", LF, "cm130", LF, "cm200", LF,
          "c2m125", LF, LF, "c2m127", LF, "c2m128", LF, "uie166", LF, "uie167",
          LF, "uie168", LF, "uie169", LF, "uie156", LF, "uie171", LF, "uie158",
          LF, "uie166", LF, "c2m137", LF, "c2m138", LF, "uie156", LF, "uie157",
          LF, "uie158", LF, "c2m125", LF, "c2m143", LF, "c2m144", LF,
          "div_close16", LF, "c2m146", LF, "div_close12", LF, "c2m148", LF,
          "closer8", LF, LF>>
    ELSE
        <<"c2m42", LF, "c2m43", LF, "c2m44", LF, "c2m45", LF, "c2m46", LF,
          "c2m47", LF, "c2m48", LF, "uie195", LF, "uie196", LF, "uie197", LF,
          "c2m52", LF, LF, "c2m54", LF, "c2m55", LF, "c2m56", LF, "c2m57", LF,
          "c2m58", LF, "c2m59", LF, "c2m60", LF, "c2m61", LF, "c2m62", LF,
          "c2m63", LF, "c2m64", LF, "c2m65", LF, "c2m66", LF, "c2m67", LF,
          "uie229", LF, "uie230", LF, "uie231", LF, "uie232", LF,
          "onclick_end", LF, "c2m73", LF, "c2m74", LF, "c2m75", LF, "c2m76",
          LF, "c2m77", LF, "c2m78", LF, "c2m79", LF, "c2m80", LF, "c2m81", LF,
          "c2m82", LF, "uie146", LF, "cm331", LF, "uie148", LF, "uie208", LF,
          "uie209", LF, "uie210", LF, "uie211", LF, "uie212", LF, "uie213", LF,
          "uie214", LF, "c2m93", LF, LF, "c2m99", LF, "c2m100", LF, "c2m101",
          LF, "cm116", LF, "cm117", LF, "cm118", LF, "cm348", LF, "cm120", LF,
          "cm121", LF, "cm122", LF, "cm123", LF, "cm353", LF, "cm354", LF,
          "cm128", LF, "cm129", LF, "cm130", LF, "cm117", LF, "cm118", LF,
          "cm360", LF, "cm120", LF, "cm121", LF, "cm363", LF, "cm123", LF,
          "cm365", LF, "cm366", LF, "cm128", LF, "cm129", LF, "cm130", LF,
          "cm117", LF, "cm118", LF, "cm372", LF, "cm120", LF, "cm121", LF,
          "cm375", LF, "cm376", LF, "cm377", LF, "cm128", LF, "cm129", LF,
          "cm130", LF, "cm117", LF, "cm118", LF, "cm383", LF, "cm120", LF,
          "cm121", LF, "cm122", LF, "cm387", LF, "cm388", LF, "cm128", LF,
          "cm129", LF, "cm130", LF, "cm200", LF, "c2m125", LF, LF, "c2m127",
          LF, "c2m128", LF, "uie166", LF, "uie167", LF, "uie168", LF, "uie169",
          LF, "uie156", LF, "uie171", LF, "uie158", LF, "uie166", LF, "c2m137",
          LF, "c2m138", LF, "uie156", LF, "cm408", LF, "uie158", LF, "c2m125",
          LF, "c2m143", LF, "c2m144", LF, "div_close16", LF, "c2m146", LF,
          "div_close12", LF, "c2m148", LF, "closer8", LF, LF>>

\* the three import lines Step 1 looks for, and what it puts in their place
ImportOld(page) ==
    <<"imp_react", "imp_motion",
      IF page = "inventory" THEN "imp_lucide_inv" ELSE "imp_lucide_cus">>

ImportNew(page) ==
    << <<"cm16", LF>>, <<"cm18", LF>>,
       IF page = "inventory" THEN <<"cm20", LF>> ELSE <<"cm252", LF>> >>

\* the anchor of Step 3
DepsAnchor(page) == IF page = "inventory" THEN "deps_inv" ELSE "deps_cus"

(***************************************************************************)
(* Python list and truth-value helpers.                                    *)
(***************************************************************************)
\* the element lines[i] of a Python list
At(lines, i) == lines[i + 1]

\* "if x:" for x an index or None: None and 0 are both false
Truthy(x) == x # None /\ x # 0

\* lines.insert(i, x) for 0 <= i <= len(lines)
ListInsert(lines, i, x) == Slice(lines, 0, i) \o <<x>> \o Slice(lines, i, Len(lines))

\* lines[a:b] = [x]
SliceAssign(lines, a, b, x) ==
    LET lo == SliceBound(a, Len(lines))
        hi == Max(SliceBound(b, Len(lines)), lo)
    IN  Slice(lines, 0, lo) \o <<x>> \o Slice(lines, hi, Len(lines))

\* del lines[a:b]
SliceDelete(lines, a, b) ==
    LET lo == SliceBound(a, Len(lines))
        hi == Max(SliceBound(b, Len(lines)), lo)
    IN  Slice(lines, 0, lo) \o Slice(lines, hi, Len(lines))

\* the index the loop "for i, line in enumerate(lines): if needle in line:
\* ...; break" acts on: the first line containing the needle, or None
FirstLine(needle, lines) ==
    LET hits == {i \in 0..(Len(lines) - 1) : InLine(needle, At(lines, i))}
    IN  IF hits = {} THEN None ELSE CHOOSE i \in hits : \A j \in hits : i <= j

(***************************************************************************)
(* convert-modals.py: the four steps of convert_inventory_page and         *)
(* convert_customers_page (the two differ in the third import line, the    *)
(* Step 3 anchor and the modal text).                                      *)
(***************************************************************************)
ImportWindow == 10
FormGap == 10

\* Step 1: rewrite the import lines among the first ten lines
Step1Line(line, page) ==
    IF InLine(ImportOld(page)[1], line) THEN ImportNew(page)[1]
    ELSE IF InLine(ImportOld(page)[2], line) THEN ImportNew(page)[2]
    ELSE IF InLine(ImportOld(page)[3], line) THEN ImportNew(page)[3]
    ELSE line

Step1(lines, page) ==
    [i \in 1..Len(lines) |->
        IF i <= ImportWindow THEN Step1Line(lines[i], page) ELSE lines[i]]

\* Step 2: insert the modalRef declaration before the createClient line
Step2Index(lines) == FirstLine("supabase", lines)

\* Step 2 inserting after the anchor line instead of before it
Step2After(lines) ==
    LET i == Step2Index(lines)
    IN  IF i = None THEN lines ELSE ListInsert(lines, i + 1, modal_ref)

Step2(lines) ==
    LET i == Step2Index(lines)
    IN  IF i = None THEN lines ELSE ListInsert(lines, i, modal_ref)

\* Step 3: insert the scroll-lock effect after the dependency-array line
Step3Index(lines, page) == FirstLine(DepsAnchor(page), lines)

\* a Step 3 that leaves a buffer alone that holds the effect already
Step3Once(lines, page) ==
    LET i == Step3Index(lines, page)
    IN  IF i = None \/ FirstLine("c2m24", lines) # None THEN lines
        ELSE ListInsert(lines, i + 1, scroll_lock_effect)

Step3(lines, page) ==
    LET i == Step3Index(lines, page)
    IN  IF i = None THEN lines ELSE ListInsert(lines, i + 1, scroll_lock_effect)

\* Step 4, one pass of the scanning loop at line i
FormBody(st, lines, i) ==
    LET fs == IF InLine("form_marker", At(lines, i)) THEN i ELSE st.form_start
    IN  IF fs # None /\ InLine("closer8", At(lines, i)) /\ i > fs + FormGap
        THEN [done |-> TRUE, form_start |-> fs, form_end |-> i + 1]
        ELSE [done |-> FALSE, form_start |-> fs, form_end |-> None]

\* <<form_start, form_end>> after the loop
FormBounds(lines) ==
    LET st == Loop(FormBody, lines, 0, Len(lines),
                   [done |-> FALSE, form_start |-> None, form_end |-> None])
    IN  <<st.form_start, st.form_end>>

\* Step 4, the guard "if form_start and form_end:"
FormFound(lines) ==
    LET form == FormBounds(lines)
    IN  Truthy(form[1]) /\ Truthy(form[2])

\* Step 4 without the slice assignment
Step4KeepsForm(lines, page) == lines

\* Step 4: replace the form section by the modal text
Step4(lines, page) ==
    IF FormFound(lines)
    THEN LET form == FormBounds(lines)
         IN  SliceAssign(lines, form[1], form[2], modal_form(page))
    ELSE lines

(***************************************************************************)
(* remove-inline-edit.py                                                   *)
(***************************************************************************)
\* one pass of the locating loop at line i
EditBody(st, lines, i) ==
    LET line == At(lines, i)
        bc == st.brace_count + CountOpen(line) - CountClose(line)
    IN  IF InLine("anchor_edit", line)
        THEN [st EXCEPT !.in_edit_section = TRUE, !.edit_start = i, !.brace_count = 1]
        ELSE IF st.in_edit_section
        THEN IF InLine("ternary_else", line) /\ bc = 0
             THEN [st EXCEPT !.in_edit_section = FALSE, !.brace_count = bc]
             ELSE IF bc < 0
             THEN [st EXCEPT !.done = TRUE, !.edit_end = i, !.brace_count = bc]
             ELSE [st EXCEPT !.brace_count = bc]
        ELSE st

\* <<edit_start, edit_end>> after the loop
EditBounds(lines) ==
    LET st == Loop(EditBody, lines, 0, Len(lines),
                   [done |-> FALSE, in_edit_section |-> FALSE, edit_start |-> None,
                    edit_end |-> None, brace_count |-> 0])
    IN  <<st.edit_start, st.edit_end>>

\* the guard "if edit_start and edit_end:"
EditFound(lines) == Truthy(EditBounds(lines)[1]) /\ Truthy(EditBounds(lines)[2])

\* the first line of edit_start..edit_end holding the Regular View comment
RegularViewLine(lines) ==
    LET hits == {i \in EditBounds(lines)[1]..EditBounds(lines)[2] :
                    InLine("regular_view", At(lines, i))}
    IN  IF hits = {} THEN None ELSE CHOOSE i \in hits : \A j \in hits : i <= j

\* does the script reach "del lines[edit_start:regular_view_line - 2]"
EditDeletes(lines) == EditFound(lines) /\ Truthy(RegularViewLine(lines))

RemoveInlineEdit(lines) ==
    IF EditDeletes(lines)
    THEN SliceDelete(lines, EditBounds(lines)[1], RegularViewLine(lines) - 2)
    ELSE lines

(***************************************************************************)
(* String substitution: str.replace and re.sub.                            *)
(***************************************************************************)
\* the text that takes the place of the occurrence of old at offset k of s:
\* new, but a first (last) line that old and new have in common stays the
\* line of s, which may be longer than the line of old
Replacement(s, k, old, new) ==
    [j \in 1..Len(new) |->
        IF j = 1 /\ new[1] = old[1] THEN s[k + 1]
        ELSE IF j = Len(new) /\ new[j] = old[Len(old)] THEN s[k + Len(old)]
        ELSE new[j]]

\* s.replace(old, new): every non-overlapping occurrence, left to right
RECURSIVE StrReplace(_, _, _)
StrReplace(s, old, new) ==
    LET k == Find(s, old, 0)
    IN  IF k = None THEN s
        ELSE Slice(s, 0, k) \o Replacement(s, k, old, new)
             \o StrReplace(Slice(s, k + Len(old), Len(s)), old, new)

\* re.sub(pat, repl, s, count) for a pattern that is literal text; count = 0
\* stands for "no limit", as in Python
RECURSIVE ReSub(_, _, _, _)
ReSub(pat, repl, s, count) ==
    LET k == Find(s, pat, 0)
    IN  IF k = None THEN s
        ELSE Slice(s, 0, k) \o Replacement(s, k, pat, repl)
             \o (IF count = 1 THEN Slice(s, k + Len(pat), Len(s))
                 ELSE ReSub(pat, repl, Slice(s, k + Len(pat), Len(s)),
                            IF count = 0 THEN 0 ELSE count - 1))

\* the leftmost match of  head .*? tail  under re.DOTALL, as <<start, end>>,
\* or <<None, None>>.  The last line of head and the first line of tail may
\* be the two ends of one line of s.
SpanMatch(s, head, tail) ==
    LET k == Find(s, head, 0)
        e == IF k = None THEN None ELSE Find(s, tail, k + Len(head) - 1)
    IN  IF e = None THEN <<None, None>> ELSE <<k, e + Len(tail)>>

\* re.sub(head .*? tail, repl, s, flags=re.DOTALL)
RECURSIVE ReSubSpan(_, _, _, _)
ReSubSpan(head, tail, repl, s) ==
    LET m == SpanMatch(s, head, tail)
    IN  IF m[1] = None THEN s
        ELSE Slice(s, 0, m[1]) \o repl
             \o ReSubSpan(head, tail, repl, Slice(s, m[2], Len(s)))

(***************************************************************************)
(* The scripts as straight-line programs over one buffer.                  *)
(***************************************************************************)
Scripts == {"convert_modals", "convert_to_modal", "remove_inline_edit",
            "update_inventory_edit"}

\* scripts that keep the buffer as a list of lines (f.readlines()); the other
\* two keep it as one str (f.read())
LineScripts == {"convert_modals", "remove_inline_edit"}

\* the position after the read
FirstStep(s) ==
    CASE s = "convert_modals" -> "step1"
      [] s = "remove_inline_edit" -> "locate"
      [] s = "update_inventory_edit" -> "patch"
      [] s = "convert_to_modal" -> "sub1"

\* the confirmation message a script prints after its write
Confirmation(s, page) ==
    CASE s = "convert_modals" -> IF page = "inventory" THEN "ok_inventory_converted"
                                 ELSE "ok_customers_converted"
      [] s = "remove_inline_edit" -> "ok_inline_edit_removed"
      [] s = "update_inventory_edit" -> "ok_inventory_updated"
      [] s = "convert_to_modal" -> "inventory_conversion_completed"

\* the locator rules a script evaluates on one page, by number
RulesOf(s) ==
    CASE s = "convert_modals" -> 1..4
      [] s = "remove_inline_edit" -> 1..2
      [] s = "update_inventory_edit" -> PatchIds
      [] s = "convert_to_modal" -> 1..4

(***************************************************************************)
(* Input files.                                                            *)
(***************************************************************************)
MaxLines == 2
MaxRuns == 2

\* the text of a list of lines given without their line breaks
Text(ls) == Flatten([i \in 1..Len(ls) |-> ls[i] \o <<LF>>])

Pad(n) == [i \in 1..n |-> <<"x">>]

\* lines that short files are made of
LinePool == { <<"x">>, <<"supabase">>, <<"deps_inv">> }

SeqsUpTo(S, n) == UNION {[1..m -> S] : m \in 0..n}

\* the button row of the form, its onClick handler on one line
OrigButtons ==
    SubSeq(old_buttons_head, 1, Len(old_buttons_head) - 1) \o <<"onclick_hide">>
    \o Tail(old_buttons_tail)

\* the form section as the scripts expect it: the marker, the old header,
\* the form tag, the fields, the button row and the closing line
OrigFormText ==
    old_form \o <<LF>> \o old_form_tag \o <<LF>>
    \o Text(<<<<"field">>, <<"field">>, <<"closer14">>, <<"field">>>>)
    \o OrigButtons \o <<LF>>

\* the tire card with the inline edit form
EditSectionText ==
    Text(<<<<"card_open">>, <<"anchor_edit">>, <<"edit_div">>, <<"edit_input">>,
           <<"div_close16">>, <<"ternary_else">>, <<"regular_view">>,
           <<"view_div">>, <<"closer14">>, <<"div_close12">>, <<"map_close">>,
           <<"x">>>>)

FunctionsText ==
    PatchOld(1) \o <<LF>> \o PatchOld(2) \o <<LF, "save_head", LF>> \o PatchOld(3)
    \o <<LF, "uie21", LF>> \o PatchOld(4) \o <<LF>>

\* the inventory page before any script ran
OrigInvText ==
    Text(<<<<"imp_react">>, <<"imp_motion">>, <<"imp_lucide_inv">>, <<"supabase">>>>)
    \o FunctionsText \o Text(<<<<"deps_inv">>>>) \o OrigFormText \o EditSectionText

\* the customers page before any script ran
OrigCusText ==
    Text(<<<<"imp_react">>, <<"imp_motion">>, <<"imp_lucide_cus">>, <<"supabase">>,
           <<"deps_cus">>, <<"form_marker">>>>)
    \o Text(Pad(FormGap)) \o Text(<<<<"closer8">>, <<"x">>>>)

\* middle parts of the longer inventory files
Mids ==
    { OrigFormText,
      EditSectionText,
      FunctionsText,
      Text(<<<<"form_marker">>>> \o Pad(FormGap - 1) \o <<<<"closer8">>>>),
      Text(<<<<"form_marker">>>> \o Pad(FormGap) \o <<<<"closer8">>>>),
      Text(<<<<"form_marker">>, <<"x">>, <<"form_marker">>>> \o Pad(FormGap)
           \o <<<<"closer12">>, <<"closer8">>>>),
      Text(<<<<"form_marker">>, <<"supabase">>, <<"deps_inv">>>> \o Pad(FormGap)
           \o <<<<"closer8">>>>),
      Text(<<<<"anchor_edit">>, <<"open_brace">>, <<"brace">>, <<"brace">>, <<"x">>>>),
      Text(<<<<"anchor_edit">>, <<"x">>, <<"anchor_edit">>, <<"open_brace">>,
             <<"brace">>, <<"x">>, <<"regular_view">>, <<"brace">>, <<"brace">>>>),
      Text(<<<<"anchor_edit">>, <<"brace">>, <<"ternary_else">>, <<"regular_view">>,
             <<"brace">>>>),
      Text(<<<<"anchor_regular">>, <<"x">>, <<"brace">>, <<"brace">>, <<"x">>>>),
      PatchOld(6) \o <<LF>> \o PatchOld(6) \o <<LF>>,
      PatchOld(8) \o <<LF>> \o PatchOld(3) \o <<LF>> \o PatchOld(8) \o <<LF>>,
      Text(<<<<"deps_inv_semi">>, <<"deps_inv_semi">>, <<"form_tag_old">>,
             <<"form_tag_old">>>>),
      Text(<<<<"imp_motion">>, <<"supabase4">>, <<"x">>, <<"supabase">>,
             <<"deps_inv">>, <<"deps_inv">>>>),
      OrigFormText \o OrigFormText,
      modal_form("inventory"),
      old_form \o <<LF>> }

Pres == { <<>>, Text(<<<<"x">>>>) }

\* short inventory pages on which every step of convert_inventory_page
\* finds its anchor: with one form marker, with a second marker before the
\* form section, and with the anchors of Step 2 and Step 3 inside the form
\* section
AllAnchorFiles ==
    { Text(<<<<"imp_motion">>, <<"supabase">>, <<"deps_inv">>, <<"form_marker">>>>
           \o Pad(FormGap) \o <<<<"closer8">>, <<"x">>>>),
      Text(<<<<"imp_react">>, <<"supabase">>, <<"deps_inv">>, <<"form_marker">>,
             <<"x">>, <<"form_marker">>>> \o Pad(FormGap)
           \o <<<<"closer8">>, <<"x">>>>),
      Text(<<<<"imp_lucide_inv">>, <<"form_marker">>, <<"supabase">>,
             <<"deps_inv">>>> \o Pad(FormGap) \o <<<<"closer8">>, <<"x">>>>) }

\* files whose lines all end in LF
LfFiles ==
    {Text(ls) : ls \in SeqsUpTo(LinePool, MaxLines)}
    \cup {pre \o mid : pre \in Pres, mid \in Mids}
    \cup {OrigInvText}
    \cup AllAnchorFiles

\* short files with any mix of line terminators, the last line possibly
\* without one
Terminators == { <<LF>>, <<CR, LF>>, <<CR>> }

StyledFiles ==
    { Flatten([i \in 1..Len(p[1]) |-> p[1][i] \o p[2][i]]) :
        p \in { q \in SeqsUpTo({<<"x">>}, MaxLines)
                       \X SeqsUpTo(Terminators \cup {<<>>}, MaxLines) :
                  /\ Len(q[1]) = Len(q[2])
                  /\ \A i \in 1..(Len(q[2]) - 1) : q[2][i] # <<>> } }

\* an anchor line in a file of each terminator
StyledAnchors ==
    { <<"supabase">> \o p[1] \o <<"x">> \o (IF p[2] THEN p[1] ELSE <<>>) :
        p \in Terminators \X BOOLEAN }

InventoryFiles == LfFiles \cup StyledFiles \cup StyledAnchors

CustomersFiles == { OrigCusText, <<>>, Text(<<<<"supabase">>, <<"form_marker">>>>) }

\* what open(path, 'r') can find at a path: a regular file the user may
\* read and write, no file, a file the user may not read, or a directory
Access == {"ok", "missing", "denied", "directory"}

\* the paths of the runs in which an open can fail, as <<bytes, access>>;
\* a missing file and a directory hold no bytes
InventoryPaths ==
    { <<OrigInvText, "ok">>, <<(<<>>), "ok">>, <<OrigInvText, "denied">>,
      <<(<<>>), "missing">>, <<(<<>>), "directory">> }

CustomersPaths ==
    {<<g, "ok">> : g \in CustomersFiles}
    \cup { <<OrigCusText, "denied">>, <<(<<>>), "missing">>, <<(<<>>), "directory">> }

(***************************************************************************)
(* State.                                                                  *)
(***************************************************************************)
VARIABLES
    disk,         \* page -> the bytes of its page.tsx
    access,       \* page -> what open(path) finds: an "ok" file, or why not
    linesep,      \* os.linesep of the platform the scripts run on
    script,       \* the script that is running, or "none"
    pc,           \* its position
    page,         \* the page whose file it is rewriting
    lines,        \* the buffer of a line script
    content,      \* the buffer of a str script
    k,            \* update-inventory-edit.py: the next replacement
    tried,        \* rules evaluated so far in this run, as <<page, rule>>
    matched,      \* rules that matched in this run, as <<page, rule>>
    prevLines,    \* the line buffer before the latest step
    prevContent,  \* the str buffer before the latest step
    readBytes,    \* the bytes of the latest read (of f.readlines(): those not
                  \* yet in a line that readline() has returned)
    f,            \* the file the script has open: the state of its reads and
                  \* writes
    wrote,        \* pages opened for writing in this run, in order
    exc,          \* the exception that ended the run, or "none"
    out,          \* messages printed in this run
    log,          \* the completed runs
    orig,         \* disk before the first run
    pid,          \* the process whose state the variables above hold
    other,        \* the state of the other process, when two run at once
    hist          \* the starts and the reads and writes of the inventory page
                  \* so far, in order

vars == <<disk, access, linesep, script, pc, page, lines, content, k, tried,
          matched, prevLines, prevContent, readBytes, f, wrote, exc, out, log,
          orig, pid, other, hist>>

runVars == <<script, pc, page, lines, content, k, tried, matched, prevLines,
             prevContent, readBytes, f, wrote, exc, out>>

\* no file is open.  Of an open file: pos is the byte offset of the next
\* read() or write(), bufsize is the size FileIO.readall has given its
\* buffer, lines are the lines f.readlines() has collected at the latest
\* read() that returned b'' inside a line, and pending is the data of the
\* write() calls still to be made
NoFile == [pos |-> 0, bufsize |-> 0, lines |-> <<>>, pending |-> <<>>]

\* the state of a process that runs no script
Idle ==
    [script |-> "none", pc |-> "idle", page |-> "inventory", lines |-> <<>>,
     content |-> <<>>, k |-> 1, tried |-> {}, matched |-> {}, prevLines |-> <<>>,
     prevContent |-> <<>>, readBytes |-> <<>>, f |-> NoFile, wrote |-> <<>>,
     exc |-> "none", out |-> <<>>]

\* one entry of the history: the running process starts script s, or has
\* read the file of page pg to its end, opens it for writing, or writes it
Event(op, s, pg) == [pid |-> pid, op |-> op, script |-> s, page |-> pg]

\* the history after the running process did op: it keeps the reads and
\* writes of the inventory page
Recorded(op) ==
    IF page = "inventory" THEN Append(hist, Event(op, script, page)) ELSE hist

Init ==
    /\ \/ /\ \E inv \in InventoryFiles :
                disk = [p \in Pages |-> IF p = "inventory" THEN inv ELSE OrigCusText]
          /\ access = [p \in Pages |-> "ok"]
       \/ \E inv \in InventoryPaths, cus \in CustomersPaths :
             /\ disk = [p \in Pages |-> IF p = "inventory" THEN inv[1] ELSE cus[1]]
             /\ access = [p \in Pages |-> IF p = "inventory" THEN inv[2] ELSE cus[2]]
    /\ linesep \in { <<LF>>, <<CR, LF>> }
    /\ script = "none"
    /\ pc = "idle"
    /\ page = "inventory"
    /\ lines = <<>>
    /\ content = <<>>
    /\ k = 1
    /\ tried = {}
    /\ matched = {}
    /\ prevLines = <<>>
    /\ prevContent = <<>>
    /\ readBytes = <<>>
    /\ f = NoFile
    /\ wrote = <<>>
    /\ exc = "none"
    /\ out = <<>>
    /\ log = <<>>
    /\ orig = disk
    /\ pid = 1
    /\ other = Idle
    /\ hist = <<>>

(***************************************************************************)
(* Actions.                                                                *)
(***************************************************************************)
\* a script is started
Start(s) ==
    /\ pc = "idle"
    /\ Len(log) < MaxRuns
    /\ script' = s
    /\ pc' = "read"
    /\ page' = "inventory"
    /\ lines' = <<>>
    /\ content' = <<>>
    /\ k' = 1
    /\ tried' = {}
    /\ matched' = {}
    /\ prevLines' = <<>>
    /\ prevContent' = <<>>
    /\ readBytes' = <<>>
    /\ wrote' = <<>>
    /\ exc' = "none"
    /\ out' = <<>>
    /\ hist' = Append(hist, Event("start", s, "inventory"))
    /\ UNCHANGED <<disk, access, linesep, f, log, orig,
                   pid, other>>

\* with open(path, 'r', encoding='utf-8') as f: lines = f.readlines()
\*                                          or: content = f.read()
\* One process at a time: nothing changes the file between the open and the
\* last read(), the block is one step.  OpenR, Fstat, ReadCall and ReadEnd
\* are the block for two processes.
Read ==
    /\ pc = "read"
    /\ access[page] = "ok"
    /\ readBytes' = disk[page]
    /\ IF script \in LineScripts
       THEN /\ lines' = ReadLines(disk[page])
            /\ prevLines' = lines'
            /\ UNCHANGED <<content, prevContent>>
       ELSE /\ content' = Decode(disk[page])
            /\ prevContent' = content'
            /\ UNCHANGED <<lines, prevLines>>
    /\ pc' = FirstStep(script)
    /\ hist' = Recorded("read")
    /\ UNCHANGED <<disk, access, linesep, script, page, k, tried, matched,
                   f, wrote, exc, out, log, orig,
                   pid, other>>

\* the exception open(path, 'r', encoding='utf-8') raises at page pg:
\* FileNotFoundError for a missing file, PermissionError for a file the user
\* may not read; for a directory IsADirectoryError, and PermissionError
\* where os.linesep is CR LF (Windows)
OpenError(pg) ==
    CASE access[pg] = "missing" -> "FileNotFoundError"
      [] access[pg] = "denied" -> "PermissionError"
      [] access[pg] = "directory" ->
            IF linesep = <<CR, LF>> THEN "PermissionError" ELSE "IsADirectoryError"

\* the open for reading raises: nothing catches it, the interpreter exits
ReadFails ==
    /\ pc = "read"
    /\ access[page] # "ok"
    /\ exc' = OpenError(page)
    /\ pc' = "exit"
    /\ UNCHANGED <<disk, access, linesep, script, page, lines, content, k,
                   tried, matched, prevLines, prevContent, readBytes, f, wrote,
                   out, log, orig,
                   pid, other, hist>>

\* a step of a line script: the buffer becomes new, rule r was evaluated and
\* matched or not
LineStep(from, to, r, hit, new) ==
    /\ pc = from
    /\ pc' = to
    /\ prevLines' = lines
    /\ lines' = new
    /\ tried' = tried \cup {<<page, r>>}
    /\ matched' = IF hit THEN matched \cup {<<page, r>>} ELSE matched
    /\ UNCHANGED <<disk, access, linesep, script, page, content, k,
                   prevContent, readBytes, f, wrote, exc, out, log, orig,
                   pid, other, hist>>

\* a step of a str script
StrStep(from, to, r, hit, new) ==
    /\ pc = from
    /\ pc' = to
    /\ prevContent' = content
    /\ content' = new
    /\ tried' = tried \cup {<<page, r>>}
    /\ matched' = IF hit THEN matched \cup {<<page, r>>} ELSE matched
    /\ UNCHANGED <<disk, access, linesep, script, page, lines, k,
                   prevLines, readBytes, f, wrote, exc, out, log, orig,
                   pid, other, hist>>

\* convert-modals.py, Step 1 .. Step 4 of either page function
Step1Hit(ls, pg) ==
    \E i \in 1..Min(Len(ls), ImportWindow) : Step1Line(ls[i], pg) # ls[i]

CM_Step1 ==
    /\ script = "convert_modals"
    /\ LineStep("step1", "step2", 1, Step1Hit(lines, page), Step1(lines, page))

CM_Step2 ==
    /\ script = "convert_modals"
    /\ LineStep("step2", "step3", 2, Step2Index(lines) # None, Step2(lines))

CM_Step3 ==
    /\ script = "convert_modals"
    /\ LineStep("step3", "step4", 3, Step3Index(lines, page) # None, Step3(lines, page))

CM_Step4 ==
    /\ script = "convert_modals"
    /\ LineStep("step4", "write", 4, FormFound(lines), Step4(lines, page))

\* remove-inline-edit.py: the locating loop, then the guarded deletion
RIE_Locate ==
    /\ script = "remove_inline_edit"
    /\ LineStep("locate", "delete", 1, EditFound(lines), lines)

RIE_Delete ==
    /\ script = "remove_inline_edit"
    /\ LineStep("delete", "write", 2, EditDeletes(lines), RemoveInlineEdit(lines))

\* update-inventory-edit.py: the k-th content.replace
PatchHit(s, n) == Find(s, PatchOld(n), 0) # None

\* a replacement that keeps the text it searched for in front of the new text
ApplyPatchKeepsOld(s, n) ==
    StrReplace(s, PatchOld(n), PatchOld(n) \o <<LF>> \o PatchNew(n))

ApplyPatch(s, n) == StrReplace(s, PatchOld(n), PatchNew(n))

UIE_Patch ==
    /\ script = "update_inventory_edit"
    /\ pc = "patch"
    /\ pc' = IF k = 10 THEN "write" ELSE "patch"
    /\ k' = k + 1
    /\ prevContent' = content
    /\ content' = ApplyPatch(content, k)
    /\ tried' = tried \cup {<<page, k>>}
    /\ matched' = IF PatchHit(content, k) THEN matched \cup {<<page, k>>} ELSE matched
    /\ UNCHANGED <<disk, access, linesep, script, page, lines, prevLines,
                   readBytes, f, wrote, exc, out, log, orig,
                   pid, other, hist>>

\* convert-to-modal.py: the four re.sub calls
Sub1(s) == ReSub(pattern, pattern \o scroll_lock_effect, s, 1)
Sub2(s) == ReSub(old_form, new_form, s, 0)
Sub3(s) == ReSub(old_form_tag, new_form_tag, s, 0)
Sub4(s) == ReSubSpan(old_buttons_head, old_buttons_tail, new_buttons, s)

C2M_Sub1 ==
    /\ script = "convert_to_modal"
    /\ StrStep("sub1", "sub2", 1, Find(content, pattern, 0) # None, Sub1(content))

C2M_Sub2 ==
    /\ script = "convert_to_modal"
    /\ StrStep("sub2", "sub3", 2, Find(content, old_form, 0) # None, Sub2(content))

C2M_Sub3 ==
    /\ script = "convert_to_modal"
    /\ StrStep("sub3", "sub4", 3, Find(content, old_form_tag, 0) # None, Sub3(content))

C2M_Sub4 ==
    /\ script = "convert_to_modal"
    /\ StrStep("sub4", "write", 4,
               SpanMatch(content, old_buttons_head, old_buttons_tail)[1] # None,
               Sub4(content))

\* what the final "with open(path, 'w', ...)" block puts on disk
Written == IF script \in LineScripts THEN WriteLines(lines, linesep)
           ELSE Encode(content, linesep)

\* with open(path, 'w', encoding='utf-8') as f: f.writelines(lines)
\*                                          or: f.write(content)
\* no script makes the write depend on what matched
Write ==
    /\ pc = "write"
    /\ disk' = [disk EXCEPT ![page] = Written]
    /\ wrote' = Append(wrote, page)
    /\ pc' = "print"
    /\ hist' = Recorded("write")
    /\ UNCHANGED <<access, linesep, script, page, lines, content, k, tried,
                   matched, prevLines, prevContent, readBytes, f, exc, out, log, orig,
                   pid, other>>

\* where a script goes after it printed its confirmation: convert-modals.py
\* calls convert_customers_page() after convert_inventory_page()
AfterConfirm(s, pg) ==
    IF s = "convert_modals" THEN IF pg = "inventory" THEN "read" ELSE "final"
    ELSE "exit"

\* a script that prints its confirmation only when some rule matched
ConfirmWhenMatched ==
    /\ pc = "print"
    /\ out' = IF \E r \in RulesOf(script) : <<page, r>> \in matched
              THEN Append(out, Confirmation(script, page)) ELSE out
    /\ pc' = AfterConfirm(script, page)
    /\ page' = IF AfterConfirm(script, page) = "read" THEN "customers" ELSE page
    /\ UNCHANGED <<disk, access, linesep, script, lines, content, k, tried,
                   matched, prevLines, prevContent, readBytes, f, wrote, exc, log, orig,
                   pid, other, hist>>

Confirm ==
    /\ pc = "print"
    /\ out' = Append(out, Confirmation(script, page))
    /\ pc' = AfterConfirm(script, page)
    /\ page' = IF AfterConfirm(script, page) = "read" THEN "customers" ELSE page
    /\ UNCHANGED <<disk, access, linesep, script, lines, content, k, tried,
                   matched, prevLines, prevContent, readBytes, f, wrote, exc, log, orig,
                   pid, other, hist>>

\* convert-modals.py: the last print of __main__
CM_Final ==
    /\ pc = "final"
    /\ out' = Append(out, "ok_all_converted")
    /\ pc' = "exit"
    /\ UNCHANGED <<disk, access, linesep, script, page, lines, content, k,
                   tried, matched, prevLines, prevContent, readBytes, f, wrote, exc,
                   log, orig,
                   pid, other, hist>>

\* the process ends; the run is recorded
Exit ==
    /\ pc = "exit"
    /\ log' = Append(log, [script |-> script, tried |-> tried, matched |-> matched,
                           wrote |-> wrote, exc |-> exc, out |-> out, disk |-> disk])
    /\ pc' = "idle"
    /\ script' = "none"
    /\ UNCHANGED <<disk, access, linesep, page, lines, content, k, tried,
                   matched, prevLines, prevContent, readBytes, f, wrote, exc, out, orig,
                   pid, other, hist>>

Next ==
    \/ \E s \in Scripts : Start(s)
    \/ Read
    \/ ReadFails
    \/ CM_Step1
    \/ CM_Step2
    \/ CM_Step3
    \/ CM_Step4
    \/ RIE_Locate
    \/ RIE_Delete
    \/ UIE_Patch
    \/ C2M_Sub1
    \/ C2M_Sub2
    \/ C2M_Sub3
    \/ C2M_Sub4
    \/ Write
    \/ Confirm
    \/ CM_Final
    \/ Exit

Spec == Init /\ [][Next]_vars

\* the disk a completed run started from
DiskBefore(i) == IF i = 1 THEN orig ELSE log[i - 1].disk

TypeOK ==
    /\ script \in Scripts \cup {"none"}
    /\ page \in Pages
    /\ k \in 1..11
    /\ Len(log) <= MaxRuns
    /\ exc \in {"none", "FileNotFoundError", "PermissionError", "IsADirectoryError"}
    /\ \A pg \in Pages : access[pg] \in Access

(***************************************************************************)
(* Two invocations at once.  Each script is a separate process working on  *)
(* the same absolute path; nothing in the scripts takes a lock.  The       *)
(* variables script .. out hold the state of the process that takes the    *)
(* next step and other holds the state of the process that waits; Switch   *)
(* hands the processor over.  The read block and the write block of a      *)
(* script are the system calls that CPython's io makes for them.           *)
(***************************************************************************)
\* the state of the running process as one record
Locals ==
    [script |-> script, pc |-> pc, page |-> page, lines |-> lines,
     content |-> content, k |-> k, tried |-> tried, matched |-> matched,
     prevLines |-> prevLines, prevContent |-> prevContent,
     readBytes |-> readBytes, f |-> f, wrote |-> wrote, exc |-> exc,
     out |-> out]

\* update-inventory-edit.py: the replacements n .. 10 in script order
RECURSIVE PatchesFrom(_, _)
PatchesFrom(s, n) == IF n > 10 THEN s ELSE PatchesFrom(ApplyPatch(s, n), n + 1)

\* the bytes script s leaves in the file of page pg when the file held bytes
\* and no other process touched it
Output(s, pg, bytes, sep) ==
    CASE s = "convert_modals" ->
            WriteLines(Step4(Step3(Step2(Step1(ReadLines(bytes), pg)), pg), pg), sep)
      [] s = "remove_inline_edit" ->
            WriteLines(RemoveInlineEdit(ReadLines(bytes)), sep)
      [] s = "update_inventory_edit" ->
            Encode(PatchesFrom(Decode(bytes), 1), sep)
      [] s = "convert_to_modal" ->
            Encode(Sub4(Sub3(Sub2(Sub1(Decode(bytes))))), sep)

\* the inventory page the two processes start from: a page with a form
\* section after convert-modals.py has run on it.  Every script finds
\* something to change in it, and it is longer than ChunkSize bytes, so that
\* it is read and written in more than one system call
ConcFiles ==
    { Output("convert_modals", "inventory",
             Text(<<<<"supabase">>, <<"deps_inv_semi">>, <<"deps_inv">>>>)
             \o FunctionsText \o EditSectionText
             \o Text(<<<<"form_marker">>>> \o Pad(FormGap) \o <<<<"closer8">>>>),
             <<LF>>) }

ConcInit ==
    /\ \E inv \in ConcFiles :
          disk = [p \in Pages |-> IF p = "inventory" THEN inv ELSE OrigCusText]
    /\ access = [p \in Pages |-> "ok"]
    /\ linesep = <<LF>>
    /\ script = "none"
    /\ pc = "idle"
    /\ page = "inventory"
    /\ lines = <<>>
    /\ content = <<>>
    /\ k = 1
    /\ tried = {}
    /\ matched = {}
    /\ prevLines = <<>>
    /\ prevContent = <<>>
    /\ readBytes = <<>>
    /\ f = NoFile
    /\ wrote = <<>>
    /\ exc = "none"
    /\ out = <<>>
    /\ log = <<>>
    /\ orig = disk
    /\ pid = 1
    /\ other = Idle
    /\ hist = <<>>

\* the state of a process that was started on script s
Started(s) == [Idle EXCEPT !.script = s, !.pc = "read"]

\* the two invocations are started, one script each.  Starting a script
\* touches no file, so both are started before either makes a system call.
ConcStart(s, t) ==
    /\ pc = "idle"
    /\ hist = <<>>
    /\ script' = s
    /\ pc' = "read"
    /\ other' = Started(t)
    /\ hist' = << [pid |-> pid, op |-> "start", script |-> s, page |-> "inventory"],
                  [pid |-> 3 - pid, op |-> "start", script |-> t, page |-> "inventory"] >>
    /\ UNCHANGED <<disk, access, linesep, page, lines, content, k, tried,
                   matched, prevLines, prevContent, readBytes, f, wrote, exc, out,
                   log, orig, pid>>

\* the processor goes to the other process: before any system call of this
\* one (an open, the fstat, a read(), a write() to the file or to stdout),
\* before its end, and after it.  The steps a script takes on its own
\* buffer change and read nothing the other process can see or change.
Switch ==
    /\ \/ pc \in {"read", "stat", "reading", "write", "writing", "print",
                  "final", "exit"}
       \/ pc = "idle" /\ \E j \in 1..Len(hist) : hist[j].pid = pid
    /\ pid' = 3 - pid
    /\ other' = Locals
    /\ script' = other.script
    /\ pc' = other.pc
    /\ page' = other.page
    /\ lines' = other.lines
    /\ content' = other.content
    /\ k' = other.k
    /\ tried' = other.tried
    /\ matched' = other.matched
    /\ prevLines' = other.prevLines
    /\ prevContent' = other.prevContent
    /\ readBytes' = other.readBytes
    /\ f' = other.f
    /\ wrote' = other.wrote
    /\ exc' = other.exc
    /\ out' = other.out
    /\ UNCHANGED <<disk, access, linesep, log, orig, hist>>

\* the number of bytes of the line that is the atom, in UTF-8; a line break
\* is one byte
ByteLens ==
    [atom \in {"CR", "LF", "brace", "open_brace", "uie156[5:6]", "x"} |-> 1]
    @@ [atom \in {"NUL*2", "cm121[:2]", "uie177[49:]"} |-> 2]
    @@ [atom \in {"cm118[132:]", "uie21"} |-> 3]
    @@ [atom \in {"cm129[26:]", "uie157[30:]"} |-> 4]
    @@ [atom \in {"cm166[92:]", "ternary_else", "uie110", "uie157[29:]"} |-> 5]
    @@ [atom \in {"c2m23", "cm121[:2]+cm129[26:]", "uie156[:6]"} |-> 6]
    @@ [atom \in {"cm121[:2]+cm166[92:]", "uie124", "uie20"} |-> 7]
    @@ [atom \in {"div_close12[10:]"} |-> 8]
    @@ [atom \in {"uie73", "uie92"} |-> 9]
    @@ [atom \in {"closer8", "cm178[:10]"} |-> 10]
    @@ [atom \in {"c2m39"} |-> 11]
    @@ [atom \in {"c2m18", "cm117[:12]"} |-> 12]
    @@ [atom \in {"c2m57", "cm130[19:]", "map_close"} |-> 13]
    @@ [atom \in {"c2m52", "closer12", "cm127[17:]", "uie121"} |-> 14]
    @@ [atom \in {"cm123[23:]", "cm165[:15]", "uie43", "uie45"} |-> 15]
    @@ [atom \in {"NUL*16", "c2m54", "closer14", "cm121[:2]+cm127[17:]",
                 "cm129[:16]", "uie202", "uie41", "uie42"} |-> 16]
    @@ [atom \in {"c2m24", "c2m73", "uie13", "uie69", "uie71"} |-> 17]
    @@ [atom \in {"c2m21", "cm162[22:]", "div_close12", "regular_view", "uie44",
                 "uie67", "uie68"} |-> 18]
    @@ [atom \in {"c2m121", "c2m15", "c2m16", "c2m80", "cm117[12:]",
                 "cm130[:19]", "uie66"} |-> 19]
    @@ [atom \in {"c2m146", "c2m59", "cm121[:2]+cm162[22:]", "form_marker",
                 "onclick_end", "uie156[5:]", "uie70"} |-> 20]
    @@ [atom \in {"c2m34", "cm121[:2]+cm117[12:]", "uie107", "uie232"} |-> 21]
    @@ [atom \in {"c2m43", "cm162[:22]", "div_close16", "uie16", "uie32",
                 "uie46", "uie74"} |-> 22]
    @@ [atom \in {"c2m107", "c2m122", "c2m45", "cm120[13:]", "cm123[:23]",
                 "deps_cus[7:]", "uie212", "uie51", "uie91"} |-> 23]
    @@ [atom \in {"c2m112", "cm127[7:]", "uie14", "uie15", "uie18", "uie72"} |-> 24]
    @@ [atom \in {"c2m113", "uie156", "uie76"} |-> 25]
    @@ [atom \in {"c2m118", "c2m42", "c2m93", "cm129[:26]", "cm176[17:]",
                 "uie115", "uie220"} |-> 26]
    @@ [atom \in {"c2m143", "c2m44", "cm178[10:]", "onclick_open", "uie118",
                 "uie148", "uie39"} |-> 27]
    @@ [atom \in {"c2m125", "c2m148", "cm121[:2]+cm176[17:]", "cm162[12:]",
                 "uie117", "uie186"} |-> 28]
    @@ [atom \in {"c2m74", "cm117[2:]", "cm121[:2]+cm178[10:]", "cm129[1:]",
                 "uie208", "uie65", "uie95"} |-> 29]
    @@ [atom \in {"anchor_edit", "cm129", "cm200", "deps_cus", "uie12",
                 "uie157[:30]", "uie17", "uie199"} |-> 30]
    @@ [atom \in {"c2m108", "c2m115", "c2m144", "c2m61", "c2m64", "card_open",
                 "cm117", "cm127", "uie120", "uie166", "uie185", "uie214"} |-> 31]
    @@ [atom \in {"(NUL*8166+cm129)[8164:]", "c2m60", "cm121[2:]",
                 "cm121[:2]+cm129", "cm130", "uie171", "uie197", "uie38"} |-> 32]
    @@ [atom \in {"uie109", "uie158"} |-> 33]
    @@ [atom \in {"cm121", "onclick_start", "supabase", "uie157"} |-> 34]
    @@ [atom \in {"c2m48", "c2m62", "cm372", "field", "save_head", "uie119",
                 "uie200"} |-> 35]
    @@ [atom \in {"cm120", "cm147", "cm164", "cm173[1:]", "cm178[1:]", "cm348",
                 "supabase4", "uie147"} |-> 36]
    @@ [atom \in {"cm119", "cm133", "cm167", "cm173", "cm178", "cm191", "cm360",
                 "cm383", "uie209", "uie229"} |-> 37]
    @@ [atom \in {"c2m46", "c2m47", "cm123", "cm187[30:]", "cm197"} |-> 38]
    @@ [atom \in {"(cm123[:23]+cm129)[:39]", "c2m137", "c2m38",
                 "cm121[:2]+cm178", "imp_motion", "uie167", "uie181", "uie183",
                 "uie201"} |-> 39]
    @@ [atom \in {"c2m19", "cm162", "cm363", "uie116", "uie179", "uie180",
                 "uie217"} |-> 40]
    @@ [atom \in {"cm122", "cm179", "cm189", "uie11", "uie178", "uie231",
                 "view_div"} |-> 41]
    @@ [atom \in {"c2m36", "cm182[53:]", "cm375", "deps_inv_semi", "uie175",
                 "uie182", "uie19"} |-> 42]
    @@ [atom \in {"cm176", "deps_inv", "edit_div"} |-> 43]
    @@ [atom \in {"c2m35"} |-> 44]
    @@ [atom \in {"cm165[:15]+cm129", "uie218", "uie230", "uie237"} |-> 45]
    @@ [atom \in {"NUL*46", "c2m17", "cm118[:46]", "cm125", "uie184"} |-> 46]
    @@ [atom \in {"c2m63", "uie176"} |-> 47]
    @@ [atom \in {"c2m81", "cm26", "uie196"} |-> 48]
    @@ [atom \in {"anchor_regular", "c2m66", "cm117[:12]+cm178",
                 "cm130[:19]+cm129", "cm168[6:]", "uie108", "uie219"} |-> 49]
    @@ [atom \in {"cm182[45:]", "edit_input"} |-> 50]
    @@ [atom \in {"cm121[:2]+cm168[6:]", "cm153", "cm353", "uie177", "uie90"} |-> 51]
    @@ [atom \in {"cm124", "cm138", "cm180", "cm365", "cm376", "onclick_hide"} |-> 52]
    @@ [atom \in {"(NUL*8182+cm178)[8166:]", "cm123[:23]+cm129",
                 "cm129[:16]+cm178"} |-> 53]
    @@ [atom \in {"c2m67", "c2m76", "c2m77", "cm387", "imp_react"} |-> 54]
    @@ [atom \in {"c2m56", "cm165", "cm168"} |-> 55]
    @@ [atom \in {"c2m127", "c2m99", "cm18"} |-> 56]
    @@ [atom \in {"c2m75"} |-> 57]
    @@ [atom \in {"cm192", "uie210"} |-> 58]
    @@ [atom \in {"cm152"} |-> 59]
    @@ [atom \in {"cm123[:23]+cm178", "uie168"} |-> 60]
    @@ [atom \in {"cm16"} |-> 62]
    @@ [atom \in {"form_tag_old"} |-> 64]
    @@ [atom \in {"uie139"} |-> 67]
    @@ [atom \in {"cm187"} |-> 68]
    @@ [atom \in {"c2m138[92:]", "imp_lucide_cus", "uie150", "uie160"} |-> 70]
    @@ [atom \in {"c2m101", "c2m65", "cm252", "uie195"} |-> 73]
    @@ [atom \in {"cm331", "cm408"} |-> 74]
    @@ [atom \in {"(cm123[:23]+cm129)[:39]+cm178", "uie93"} |-> 76]
    @@ [atom \in {"uie122"} |-> 78]
    @@ [atom \in {"cm116"} |-> 79]
    @@ [atom \in {"c2m55"} |-> 80]
    @@ [atom \in {"c2m78", "cm155"} |-> 82]
    @@ [atom \in {"(NUL*8182+cm178)[8136:]", "cm118[:46]+cm178", "cm126",
                 "cm140", "uie138"} |-> 83]
    @@ [atom \in {"uie213"} |-> 84]
    @@ [atom \in {"c2m79"} |-> 87]
    @@ [atom \in {"cm194"} |-> 89]
    @@ [atom \in {"imp_lucide_inv"} |-> 93]
    @@ [atom \in {"cm182"} |-> 95]
    @@ [atom \in {"cm118[:96]", "cm20"} |-> 96]
    @@ [atom \in {"cm166"} |-> 97]
    @@ [atom \in {"cm354"} |-> 98]
    @@ [atom \in {"c2m58", "cm366", "cm377"} |-> 99]
    @@ [atom \in {"NUL*100"} |-> 100]
    @@ [atom \in {"cm388"} |-> 101]
    @@ [atom \in {"c2m40", "cm121[:2]+NUL*100"} |-> 102]
    @@ [atom \in {"cm118[32:]"} |-> 103]
    @@ [atom \in {"cm121[:2]+cm118[32:]"} |-> 105]
    @@ [atom \in {"uie146"} |-> 108]
    @@ [atom \in {"uie211"} |-> 109]
    @@ [atom \in {"c2m106"} |-> 114]
    @@ [atom \in {"NUL*116"} |-> 116]
    @@ [atom \in {"c2m37"} |-> 117]
    @@ [atom \in {"c2m128", "cm121[:2]+NUL*116"} |-> 118]
    @@ [atom \in {"c2m100", "c2m138[42:]"} |-> 120]
    @@ [atom \in {"NUL*126"} |-> 126]
    @@ [atom \in {"c2m82"} |-> 127]
    @@ [atom \in {"(NUL*8166+cm129)[8066:]"} |-> 130]
    @@ [atom \in {"cm118[:132]", "cm121[:2]+NUL*100+cm129"} |-> 132]
    @@ [atom \in {"cm118[:96]+cm178"} |-> 133]
    @@ [atom \in {"cm118"} |-> 135]
    @@ [atom \in {"(NUL*8182+cm178)[8066:]"} |-> 153]
    @@ [atom \in {"cm121[:2]+(NUL*8182+cm178)[8066:]"} |-> 155]
    @@ [atom \in {"NUL*126+cm129"} |-> 156]
    @@ [atom \in {"c2m138", "cm118[:132]+cm129"} |-> 162]
    @@ [atom \in {"c2m116"} |-> 167]
    @@ [atom \in {"uie169[51:]"} |-> 187]
    @@ [atom \in {"cm128[:193]"} |-> 193]
    @@ [atom \in {"cm128[:193]+cm129"} |-> 223]
    @@ [atom \in {"uie169[1:]"} |-> 237]
    @@ [atom \in {"uie169"} |-> 238]
    @@ [atom \in {"c2m110"} |-> 242]
    @@ [atom \in {"cm128"} |-> 247]
    @@ [atom \in {"cm196"} |-> 271]
    @@ [atom \in {"NUL*8166"} |-> 8166]
    @@ [atom \in {"NUL*8182"} |-> 8182]
    @@ [atom \in {"NUL*8166+cm129"} |-> 8196]
    @@ [atom \in {"NUL*8182+cm178"} |-> 8219]

ByteLen(atom) == ByteLens[atom]

\* the numbers of bytes of the lines and line breaks of a text, in order
Sizes(bytes) == [i \in 1..Len(bytes) |-> ByteLen(bytes[i])]

\* the sum of the first m of the sizes (the sizes are a bag: position i is in
\* it sizes[i] times)
SumTo(sizes, m) == BagCardinality([i \in 1..m |-> sizes[i]])

\* the number of bytes of a text
ByteCount(bytes) == SumTo(Sizes(bytes), Len(bytes))

\* pieces of lines: <<line, from, to>> :> the line that is bytes from .. to-1
\* of the line, for the lines and offsets at which the read() and write()
\* calls of two processes started on ConcFiles and OrigCusText cut a line
Pieces ==
    <<"NUL*8166+cm129", 8040, 8196>> :> "NUL*126+cm129"
    @@ <<"NUL*8166+cm129", 8066, 8196>> :> "(NUL*8166+cm129)[8066:]"
    @@ <<"NUL*8166+cm129", 8164, 8196>> :> "(NUL*8166+cm129)[8164:]"
    @@ <<"NUL*8166+cm129", 8166, 8196>> :> "cm129"
    @@ <<"NUL*8166+cm129", 8182, 8196>> :> "c2m52"
    @@ <<"NUL*8182+cm178", 8066, 8219>> :> "(NUL*8182+cm178)[8066:]"
    @@ <<"NUL*8182+cm178", 8136, 8219>> :> "(NUL*8182+cm178)[8136:]"
    @@ <<"NUL*8182+cm178", 8166, 8219>> :> "(NUL*8182+cm178)[8166:]"
    @@ <<"NUL*8182+cm178", 8182, 8219>> :> "cm178"
    @@ <<"c2m138", 42, 162>> :> "c2m138[42:]"
    @@ <<"c2m138", 92, 162>> :> "c2m138[92:]"
    @@ <<"cm117", 0, 2>> :> "cm121[:2]"
    @@ <<"cm117", 0, 12>> :> "cm117[:12]"
    @@ <<"cm117", 2, 31>> :> "cm117[2:]"
    @@ <<"cm117", 12, 31>> :> "cm117[12:]"
    @@ <<"cm118", 0, 46>> :> "cm118[:46]"
    @@ <<"cm118", 0, 96>> :> "cm118[:96]"
    @@ <<"cm118", 0, 132>> :> "cm118[:132]"
    @@ <<"cm118", 32, 135>> :> "cm118[32:]"
    @@ <<"cm118", 132, 135>> :> "cm118[132:]"
    @@ <<"cm120", 13, 36>> :> "cm120[13:]"
    @@ <<"cm121", 0, 2>> :> "cm121[:2]"
    @@ <<"cm121", 2, 34>> :> "cm121[2:]"
    @@ <<"cm123", 0, 23>> :> "cm123[:23]"
    @@ <<"cm123", 23, 38>> :> "cm123[23:]"
    @@ <<"cm123[:23]+cm129", 0, 39>> :> "(cm123[:23]+cm129)[:39]"
    @@ <<"cm127", 7, 31>> :> "cm127[7:]"
    @@ <<"cm127", 17, 31>> :> "cm127[17:]"
    @@ <<"cm128", 0, 193>> :> "cm128[:193]"
    @@ <<"cm129", 0, 1>> :> "uie156[5:6]"
    @@ <<"cm129", 0, 16>> :> "cm129[:16]"
    @@ <<"cm129", 0, 26>> :> "cm129[:26]"
    @@ <<"cm129", 1, 30>> :> "cm129[1:]"
    @@ <<"cm129", 16, 30>> :> "c2m52"
    @@ <<"cm129", 26, 30>> :> "cm129[26:]"
    @@ <<"cm130", 0, 19>> :> "cm130[:19]"
    @@ <<"cm130", 19, 32>> :> "cm130[19:]"
    @@ <<"cm162", 0, 12>> :> "cm117[:12]"
    @@ <<"cm162", 0, 22>> :> "cm162[:22]"
    @@ <<"cm162", 12, 40>> :> "cm162[12:]"
    @@ <<"cm162", 22, 40>> :> "cm162[22:]"
    @@ <<"cm164", 0, 2>> :> "cm121[:2]"
    @@ <<"cm165", 0, 15>> :> "cm165[:15]"
    @@ <<"cm165", 0, 23>> :> "cm123[:23]"
    @@ <<"cm166", 92, 97>> :> "cm166[92:]"
    @@ <<"cm167", 36, 37>> :> "brace"
    @@ <<"cm168", 6, 55>> :> "cm168[6:]"
    @@ <<"cm173", 1, 37>> :> "cm173[1:]"
    @@ <<"cm176", 17, 43>> :> "cm176[17:]"
    @@ <<"cm178", 0, 1>> :> "uie156[5:6]"
    @@ <<"cm178", 0, 10>> :> "cm178[:10]"
    @@ <<"cm178", 1, 37>> :> "cm178[1:]"
    @@ <<"cm178", 10, 37>> :> "cm178[10:]"
    @@ <<"cm182", 45, 95>> :> "cm182[45:]"
    @@ <<"cm182", 53, 95>> :> "cm182[53:]"
    @@ <<"cm187", 30, 68>> :> "cm187[30:]"
    @@ <<"deps_cus", 7, 30>> :> "deps_cus[7:]"
    @@ <<"div_close12", 10, 18>> :> "div_close12[10:]"
    @@ <<"uie156", 0, 6>> :> "uie156[:6]"
    @@ <<"uie156", 5, 6>> :> "uie156[5:6]"
    @@ <<"uie156", 5, 25>> :> "uie156[5:]"
    @@ <<"uie156", 6, 25>> :> "c2m80"
    @@ <<"uie157", 0, 30>> :> "uie157[:30]"
    @@ <<"uie157", 29, 30>> :> "uie156[5:6]"
    @@ <<"uie157", 29, 34>> :> "uie157[29:]"
    @@ <<"uie157", 30, 34>> :> "uie157[30:]"
    @@ <<"uie169", 1, 238>> :> "uie169[1:]"
    @@ <<"uie169", 51, 238>> :> "uie169[51:]"
    @@ <<"uie177", 49, 51>> :> "uie177[49:]"

\* bytes from .. to-1 of the line that is the atom
PieceOf(atom, from, to) ==
    IF from = 0 /\ to = ByteLen(atom) THEN atom ELSE Pieces[<<atom, from, to>>]

\* <<a, b>> :> the line whose text is the text of a followed by the text of
\* b, for the lines these calls put end to start
Glued ==
    <<"(cm123[:23]+cm129)[:39]", "cm178">> :> "(cm123[:23]+cm129)[:39]+cm178"
    @@ <<"NUL*126", "cm129">> :> "NUL*126+cm129"
    @@ <<"NUL*16", "cm178">> :> "(NUL*8182+cm178)[8166:]"
    @@ <<"NUL*2", "cm129">> :> "(NUL*8166+cm129)[8164:]"
    @@ <<"NUL*46", "cm178">> :> "(NUL*8182+cm178)[8136:]"
    @@ <<"NUL*8166", "cm129">> :> "NUL*8166+cm129"
    @@ <<"NUL*8182", "cm178">> :> "NUL*8182+cm178"
    @@ <<"cm117[:12]", "cm117[12:]">> :> "cm117"
    @@ <<"cm117[:12]", "cm178">> :> "cm117[:12]+cm178"
    @@ <<"cm118[:132]", "cm129">> :> "cm118[:132]+cm129"
    @@ <<"cm118[:46]", "cm178">> :> "cm118[:46]+cm178"
    @@ <<"cm118[:96]", "cm178">> :> "cm118[:96]+cm178"
    @@ <<"cm121[:2]", "(NUL*8166+cm129)[8066:]">> :> "cm121[:2]+NUL*100+cm129"
    @@ <<"cm121[:2]", "(NUL*8182+cm178)[8066:]">> :> "cm121[:2]+(NUL*8182+cm178)[8066:]"
    @@ <<"cm121[:2]", "NUL*100">> :> "cm121[:2]+NUL*100"
    @@ <<"cm121[:2]", "NUL*116">> :> "cm121[:2]+NUL*116"
    @@ <<"cm121[:2]", "brace">> :> "uie21"
    @@ <<"cm121[:2]", "cm117[12:]">> :> "cm121[:2]+cm117[12:]"
    @@ <<"cm121[:2]", "cm118[32:]">> :> "cm121[:2]+cm118[32:]"
    @@ <<"cm121[:2]", "cm121[2:]">> :> "cm121"
    @@ <<"cm121[:2]", "cm127[17:]">> :> "cm121[:2]+cm127[17:]"
    @@ <<"cm121[:2]", "cm129">> :> "cm121[:2]+cm129"
    @@ <<"cm121[:2]", "cm129[26:]">> :> "cm121[:2]+cm129[26:]"
    @@ <<"cm121[:2]", "cm162[22:]">> :> "cm121[:2]+cm162[22:]"
    @@ <<"cm121[:2]", "cm166[92:]">> :> "cm121[:2]+cm166[92:]"
    @@ <<"cm121[:2]", "cm168[6:]">> :> "cm121[:2]+cm168[6:]"
    @@ <<"cm121[:2]", "cm176[17:]">> :> "cm121[:2]+cm176[17:]"
    @@ <<"cm121[:2]", "cm178">> :> "cm121[:2]+cm178"
    @@ <<"cm121[:2]", "cm178[10:]">> :> "cm121[:2]+cm178[10:]"
    @@ <<"cm121[:2]+NUL*100", "cm129">> :> "cm121[:2]+NUL*100+cm129"
    @@ <<"cm121[:2]+NUL*116", "cm178">> :> "cm121[:2]+(NUL*8182+cm178)[8066:]"
    @@ <<"cm123[:23]", "cm129">> :> "cm123[:23]+cm129"
    @@ <<"cm123[:23]", "cm178">> :> "cm123[:23]+cm178"
    @@ <<"cm128[:193]", "cm129">> :> "cm128[:193]+cm129"
    @@ <<"cm129[:16]", "cm178">> :> "cm129[:16]+cm178"
    @@ <<"cm129[:26]", "cm129[26:]">> :> "cm129"
    @@ <<"cm130[:19]", "cm129">> :> "cm130[:19]+cm129"
    @@ <<"cm162[:22]", "cm162[22:]">> :> "cm162"
    @@ <<"cm165[:15]", "cm129">> :> "cm165[:15]+cm129"
    @@ <<"cm178[:10]", "cm178[10:]">> :> "cm178"
    @@ <<"uie156[5:6]", "c2m80">> :> "uie156[5:]"
    @@ <<"uie156[5:6]", "cm129[1:]">> :> "cm129"
    @@ <<"uie156[5:6]", "cm178[1:]">> :> "cm178"
    @@ <<"uie156[5:6]", "uie157[30:]">> :> "uie157[29:]"
    @@ <<"uie156[:6]", "c2m80">> :> "uie156"
    @@ <<"uie157[:30]", "uie157[30:]">> :> "uie157"

\* a followed by b, both bytes; where a ends and b starts inside a line, the
\* two pieces are one line
JoinSeq(a, b) ==
    IF a = <<>> \/ b = <<>> \/ a[Len(a)] \in {LF, CR} \/ b[1] \in {LF, CR}
    THEN a \o b
    ELSE SubSeq(a, 1, Len(a) - 1) \o <<Glued[<<a[Len(a)], b[1]>>]>> \o Tail(b)

\* n :> the line of n NUL bytes, for the gaps these calls leave
NulRuns ==
    2 :> "NUL*2"
    @@ 16 :> "NUL*16"
    @@ 46 :> "NUL*46"
    @@ 100 :> "NUL*100"
    @@ 116 :> "NUL*116"
    @@ 126 :> "NUL*126"
    @@ 8166 :> "NUL*8166"
    @@ 8182 :> "NUL*8182"

\* the number of whole lines and line breaks among the first pos bytes of a
\* text with these sizes, between lo and hi of them: lo of them end at or
\* before byte pos, hi of them end after it
RECURSIVE WholeBefore(_, _, _, _)
WholeBefore(sizes, pos, lo, hi) ==
    IF hi = lo + 1 THEN lo
    ELSE IF SumTo(sizes, (lo + hi) \div 2) <= pos
    THEN WholeBefore(sizes, pos, (lo + hi) \div 2, hi)
    ELSE WholeBefore(sizes, pos, lo, (lo + hi) \div 2)

\* where the first pos bytes of a text end: before the line or line break
\* number cut (0-based), or inside it (torn, left bytes into it); not done
\* when the text has pos bytes or fewer (left: how many fewer)
CutAt(bytes, pos) ==
    LET sizes == Sizes(bytes)
        total == SumTo(sizes, Len(bytes))
        cut == WholeBefore(sizes, pos, 0, Len(bytes))
        left == pos - SumTo(sizes, cut)
    IN  IF pos >= total
        THEN [done |-> FALSE, left |-> pos - total, cut |-> None, torn |-> FALSE]
        ELSE [done |-> TRUE, left |-> left, cut |-> cut, torn |-> left > 0]

\* the bytes of a file from byte offset pos to its end; nothing when the
\* file ends at or before pos
BytesFrom(bytes, pos) ==
    LET st == CutAt(bytes, pos)
    IN  IF ~st.done THEN <<>>
        ELSE IF st.torn
        THEN <<PieceOf(At(bytes, st.cut), st.left, ByteLen(At(bytes, st.cut)))>>
             \o Slice(bytes, st.cut + 1, Len(bytes))
        ELSE Slice(bytes, st.cut, Len(bytes))

(***************************************************************************)
(* The read block of a script: an open, and the read() system calls that   *)
(* f.readlines() or f.read() make until a call returns no bytes.  The      *)
(* other process can run between any two of them.  The offset of the open  *)
(* file is the number of bytes read so far.                                *)
(***************************************************************************)
\* TextIOWrapper asks the file for 8192 bytes at a time (f.readlines()), and
\* collects 8192 bytes before it hands them on (f.writelines(), f.write())
ChunkSize == 8192

\* FileIO.readall (f.read()): the buffer for a file that looks empty, and
\* the least a full buffer grows by
SmallChunk == 8192
LargeBufferCutoff == 65536

\* the size FileIO.readall gives its buffer when n bytes filled it
NewBufferSize(n) ==
    n + Max(IF n > LargeBufferCutoff THEN n \div 8 ELSE 256 + n, SmallChunk)

\* the size of the buffer of the BufferedWriter that open(path, 'w') makes:
\* st_blksize of the file
BufferSize == 4096

\* the number of bytes the read() calls have returned
BytesRead == f.pos

\* the number of bytes the next read() call asks for
Asked ==
    IF script \in LineScripts THEN ChunkSize
    ELSE IF BytesRead >= f.bufsize THEN NewBufferSize(BytesRead) - BytesRead
    ELSE f.bufsize - BytesRead

\* read(n) at offset pos of a file: eof when the file has no byte there;
\* else the number of bytes returned (n) and the bytes (data): the piece of
\* the line the offset lies in, the lines and line breaks that follow in
\* full, and the piece of the line the bytes end in
ReadAt(bytes, pos, n) ==
    LET s == CutAt(bytes, pos)
        e == CutAt(bytes, pos + n)
        same == s.done /\ s.torn /\ e.done /\ e.torn /\ e.cut = s.cut
    IN  IF ~s.done
        THEN [eof |-> TRUE, n |-> 0, data |-> <<>>]
        ELSE [eof |-> FALSE,
              n |-> IF e.done THEN n ELSE n - e.left,
              data |->
                 (IF s.torn
                  THEN <<PieceOf(At(bytes, s.cut), s.left,
                                 IF same THEN e.left
                                 ELSE ByteLen(At(bytes, s.cut)))>>
                  ELSE <<>>)
                 \o Slice(bytes, IF s.torn THEN s.cut + 1 ELSE s.cut,
                          IF e.done THEN e.cut ELSE Len(bytes))
                 \o (IF e.done /\ e.torn /\ ~same
                     THEN <<PieceOf(At(bytes, e.cut), 0, e.left)>>
                     ELSE <<>>)]

\* the bytes read end inside a line: readline() holds the start of a line
Held == readBytes # <<>> /\ readBytes[Len(readBytes)] # LF

\* open(path, 'r', encoding='utf-8')
OpenR ==
    /\ pc = "read"
    /\ access[page] = "ok"
    /\ pc' = IF script \in LineScripts THEN "reading" ELSE "stat"
    /\ readBytes' = <<>>
    /\ f' = NoFile
    /\ UNCHANGED <<disk, access, linesep, script, page, lines, content, k,
                   tried, matched, prevLines, prevContent, wrote, exc, out,
                   log, orig, pid, other, hist>>

\* content = f.read(): FileIO.readall asks for the size of the file and
\* makes its buffer one byte longer
Fstat ==
    /\ pc = "stat"
    /\ pc' = "reading"
    /\ f' = [f EXCEPT !.bufsize = IF disk[page] # <<>>
                                  THEN ByteCount(disk[page]) + 1
                                  ELSE SmallChunk]
    /\ UNCHANGED <<disk, access, linesep, script, page, lines, content, k,
                   tried, matched, prevLines, prevContent, readBytes, wrote,
                   exc, out, log, orig, pid, other, hist>>

\* a read() that returns bytes
ReadCall ==
    /\ pc = "reading"
    /\ LET r == ReadAt(disk[page], BytesRead, Asked)
       IN  /\ ~r.eof
           /\ readBytes' = JoinSeq(readBytes, r.data)
           /\ f' = [f EXCEPT
                      !.pos = @ + r.n,
                      !.bufsize = IF script \notin LineScripts /\ BytesRead >= @
                                  THEN NewBufferSize(BytesRead) ELSE @]
    /\ UNCHANGED <<disk, access, linesep, script, pc, page, lines, content, k,
                   tried, matched, prevLines, prevContent, wrote, exc, out,
                   log, orig, pid, other, hist>>

\* f.readlines(): a read() that returns b'' while readline() holds the
\* start of a line.  The line ends there, without a line break, and
\* readlines() calls readline() again, which asks read() again
ReadlineCut ==
    /\ pc = "reading"
    /\ script \in LineScripts
    /\ Held
    /\ ReadAt(disk[page], BytesRead, Asked).eof
    /\ f' = [f EXCEPT !.lines = @ \o ReadLines(readBytes)]
    /\ readBytes' = <<>>
    /\ UNCHANGED <<disk, access, linesep, script, pc, page, lines, content, k,
                   tried, matched, prevLines, prevContent, wrote, exc, out,
                   log, orig, pid, other, hist>>

\* the read() that returns b'' and ends the reading: of f.read() the first,
\* of f.readlines() the first while readline() holds nothing.  lines =
\* f.readlines() or content = f.read() is what the calls returned, and the
\* with block is left
ReadEnd ==
    /\ pc = "reading"
    /\ script \in LineScripts => ~Held
    /\ ReadAt(disk[page], BytesRead, Asked).eof
    /\ f' = NoFile
    /\ IF script \in LineScripts
       THEN /\ lines' = f.lines \o ReadLines(readBytes)
            /\ prevLines' = lines'
            /\ UNCHANGED <<content, prevContent>>
       ELSE /\ content' = Decode(readBytes)
            /\ prevContent' = content'
            /\ UNCHANGED <<lines, prevLines>>
    /\ pc' = FirstStep(script)
    /\ hist' = Recorded("read")
    /\ UNCHANGED <<disk, access, linesep, script, page, k, tried, matched,
                   readBytes, wrote, exc, out, log, orig, pid, other>>

(***************************************************************************)
(* The write block of a script: open(path, 'w') truncates the file, and    *)
(* the data reach it in write() system calls: one when the block is left,  *)
(* and one before it for each ChunkSize bytes of lines that                *)
(* f.writelines(lines) has collected.                                      *)
(***************************************************************************)
\* the str objects the script hands to the file, encoded
Items ==
    IF script \in LineScripts
    THEN [i \in 1..Len(lines) |-> Encode(lines[i], linesep)]
    ELSE <<Encode(content, linesep)>>

\* BufferedWriter.write(piece) for a piece of n bytes: kept in the buffer
\* when it fits; else the buffer is written out, and the piece after it when
\* it is longer than the buffer
BufWrite(st, piece, n) ==
    IF n = 0 THEN st
    ELSE IF n <= BufferSize - st.bufn
    THEN [st EXCEPT !.buf = JoinSeq(@, piece), !.bufn = @ + n]
    ELSE LET flushed == IF st.bufn > 0 THEN Append(st.calls, st.buf) ELSE st.calls
         IN  IF n > BufferSize
             THEN [st EXCEPT !.calls = Append(flushed, piece), !.buf = <<>>,
                             !.bufn = 0]
             ELSE [st EXCEPT !.calls = flushed, !.buf = piece, !.bufn = n]

\* TextIOWrapper hands the bytes it has collected to the BufferedWriter
TextFlush(st) == [BufWrite(st, st.pend, st.pendn) EXCEPT !.pend = <<>>, !.pendn = 0]

\* TextIOWrapper.write(item): what is collected goes on first when the item
\* would make it more than ChunkSize bytes, and with the item when that
\* makes ChunkSize bytes or more
TextWriteBody(st, items, i) ==
    LET n == ByteCount(At(items, i))
        s1 == IF st.pendn > 0 /\ st.pendn + n > ChunkSize THEN TextFlush(st) ELSE st
        s2 == [s1 EXCEPT !.pend = JoinSeq(@, At(items, i)), !.pendn = @ + n]
    IN  IF s2.pendn >= ChunkSize THEN TextFlush(s2) ELSE s2

\* the data of the write() system calls of a with block in which the items
\* are written, in order; the last is made when the block is left
WriteCalls(items) ==
    LET st == Loop(TextWriteBody, items, 0, Len(items),
                   [done |-> FALSE, pend |-> <<>>, pendn |-> 0, buf |-> <<>>,
                    bufn |-> 0, calls |-> <<>>])
        closed == TextFlush(st)
    IN  IF closed.bufn > 0 THEN Append(closed.calls, closed.buf) ELSE closed.calls

\* what the file holds after write(data) at byte offset pos: what it held
\* before pos, data, and what it held beyond the end of data.  A file that
\* ends before pos is filled up to pos with NUL bytes.
WriteAt(bytes, pos, data) ==
    LET s == CutAt(bytes, pos)
        head == IF s.done
                THEN Slice(bytes, 0, s.cut)
                     \o (IF s.torn THEN <<PieceOf(At(bytes, s.cut), 0, s.left)>>
                         ELSE <<>>)
                ELSE IF s.left = 0 THEN bytes
                ELSE JoinSeq(bytes, <<NulRuns[s.left]>>)
    IN  JoinSeq(JoinSeq(head, data), BytesFrom(bytes, pos + ByteCount(data)))

\* an open for writing that gives way: where the file is no longer what it
\* was when the processes started, it is left as it is and nothing is written
OpenWUnlessChanged ==
    /\ pc = "write"
    /\ pc' = "writing"
    /\ IF disk[page] = orig[page]
       THEN /\ disk' = [disk EXCEPT ![page] = <<>>]
            /\ f' = [NoFile EXCEPT !.pending = WriteCalls(Items)]
       ELSE /\ disk' = disk
            /\ f' = NoFile
    /\ hist' = Recorded("open")
    /\ UNCHANGED <<access, linesep, script, page, lines, content, k, tried,
                   matched, prevLines, prevContent, readBytes, wrote, exc, out,
                   log, orig, pid, other>>

\* open(path, 'w', encoding='utf-8'): the file is truncated.  The data of
\* the write() calls of the block are those of the lines, or the content,
\* that the process holds: the block changes neither
OpenW ==
    /\ pc = "write"
    /\ pc' = "writing"
    /\ disk' = [disk EXCEPT ![page] = <<>>]
    /\ f' = [NoFile EXCEPT !.pending = WriteCalls(Items)]
    /\ hist' = Recorded("open")
    /\ UNCHANGED <<access, linesep, script, page, lines, content, k, tried,
                   matched, prevLines, prevContent, readBytes, wrote, exc, out,
                   log, orig, pid, other>>

\* a write() that is not the last of the block
WriteCall ==
    /\ pc = "writing"
    /\ Len(f.pending) > 1
    /\ disk' = [disk EXCEPT ![page] = WriteAt(@, f.pos, Head(f.pending))]
    /\ f' = [f EXCEPT !.pos = @ + ByteCount(Head(f.pending)),
                      !.pending = Tail(@)]
    /\ UNCHANGED <<access, linesep, script, pc, page, lines, content, k, tried,
                   matched, prevLines, prevContent, readBytes, wrote, exc, out,
                   log, orig, pid, other, hist>>

\* the end of the with block: the write() of what has not been written yet
WriteClose ==
    /\ pc = "writing"
    /\ pc' = "print"
    /\ Len(f.pending) <= 1
    /\ disk' = IF f.pending # <<>>
               THEN [disk EXCEPT ![page] = WriteAt(@, f.pos, Head(f.pending))]
               ELSE disk
    /\ f' = NoFile
    /\ wrote' = Append(wrote, page)
    /\ hist' = Recorded("write")
    /\ UNCHANGED <<access, linesep, script, page, lines, content, k, tried,
                   matched, prevLines, prevContent, readBytes, exc, out, log,
                   orig, pid, other>>

ConcNext ==
    \/ \E s, t \in Scripts : ConcStart(s, t)
    \/ OpenR
    \/ Fstat
    \/ ReadCall
    \/ ReadlineCut
    \/ ReadEnd
    \/ CM_Step1
    \/ CM_Step2
    \/ CM_Step3
    \/ CM_Step4
    \/ RIE_Locate
    \/ RIE_Delete
    \/ UIE_Patch
    \/ C2M_Sub1
    \/ C2M_Sub2
    \/ C2M_Sub3
    \/ C2M_Sub4
    \/ OpenW
    \/ WriteCall
    \/ WriteClose
    \/ Confirm
    \/ CM_Final
    \/ Exit
    \/ Switch

ConcSpec == ConcInit /\ [][ConcNext]_vars

(***************************************************************************)
(* Properties.                                                             *)
(***************************************************************************)
Runs == 1..Len(log)

\* the rules a completed run evaluated without a match
Unmatched(i) == log[i].tried \ log[i].matched

\* does rule r of script s match the buffer read from the bytes of page pg
RuleMatches(s, pg, r, bytes) ==
    CASE s = "convert_modals" ->
            (CASE r = 1 -> Step1Hit(ReadLines(bytes), pg)
               [] r = 2 -> Step2Index(ReadLines(bytes)) # None
               [] r = 3 -> Step3Index(ReadLines(bytes), pg) # None
               [] r = 4 -> FormFound(ReadLines(bytes)))
      [] s = "remove_inline_edit" ->
            (CASE r = 1 -> EditFound(ReadLines(bytes))
               [] r = 2 -> EditDeletes(ReadLines(bytes)))
      [] s = "update_inventory_edit" -> PatchHit(Decode(bytes), r)
      [] s = "convert_to_modal" ->
            (CASE r = 1 -> Find(Decode(bytes), pattern, 0) # None
               [] r = 2 -> Find(Decode(bytes), old_form, 0) # None
               [] r = 3 -> Find(Decode(bytes), old_form_tag, 0) # None
               [] r = 4 -> SpanMatch(Decode(bytes), old_buttons_head,
                                     old_buttons_tail)[1] # None)

\* C1: a run in which some locator rule matched nothing ends with a
\* PatchNotFound failure and has performed no write: the target file is as it
\* was before the run.
C1_AbortsWithoutWrite ==
    \A i \in Runs :
        Unmatched(i) # {} =>
            /\ log[i].exc = "PatchNotFound"
            /\ log[i].wrote = <<>>
            /\ log[i].disk = DiskBefore(i)

\* C2: after a script ran to its end, none of its locator rules matches the
\* file it wrote, so that a second run would apply nothing a second time.
C2_NoRuleMatchesAfterRun ==
    \A i \in Runs :
        log[i].exc = "none" =>
            \A pg \in Pages, r \in RulesOf(log[i].script) :
                <<pg, r>> \in log[i].tried =>
                    ~RuleMatches(log[i].script, pg, r, log[i].disk[pg])

(***************************************************************************)
(* C3: the order of convert-modals.py (P1) and update-inventory-edit.py    *)
(* (P2) on the inventory page.                                             *)
(***************************************************************************)
\* the patches of P2 whose search text lies in P1's modal block: title,
\* Cancel button, backdrop, X button, Escape handler
ModalPatches == {5, 7, 8, 9, 10}

Has(bytes, t) == Find(Decode(bytes), t, 0) # None

\* a file without the modal markup, patched or not
NoModalMarkup(bytes) ==
    LET s == Decode(bytes)
    IN  \A n \in ModalPatches :
            Find(s, PatchOld(n), 0) = None /\ Find(s, PatchNew(n), 0) = None

\* the modal patches that matched in run i
ModalMatched(i) == {n \in ModalPatches : <<"inventory", n>> \in log[i].matched}

\* run i was P1, run i + 1 was P2, both ran to their end; the pair is looked
\* at when its second run has ended and no later run has started
P1ThenP2(i) ==
    /\ script = "none"
    /\ i + 1 = Len(log)
    /\ log[i].script = "convert_modals" /\ log[i].exc = "none"
    /\ log[i + 1].script = "update_inventory_edit" /\ log[i + 1].exc = "none"
    /\ NoModalMarkup(DiskBefore(i)["inventory"])

\* run i was P2, run i + 1 was P1, both ran to their end
P2ThenP1(i) ==
    /\ script = "none"
    /\ i + 1 = Len(log)
    /\ log[i].script = "update_inventory_edit" /\ log[i].exc = "none"
    /\ log[i + 1].script = "convert_modals" /\ log[i + 1].exc = "none"
    /\ NoModalMarkup(DiskBefore(i)["inventory"])

\* Step 4 of P1 replaced the form section in run i
FormReplaced(i) == <<"inventory", 4>> \in log[i].matched

\* the file holds P1's modal block as P1 wrote it, and none of the texts the
\* modal patches of P2 put in
ModalBlockUnpatched(bytes) ==
    LET s == Decode(bytes)
    IN  /\ Find(s, modal_form("inventory"), 0) # None
        /\ \A n \in ModalPatches : Find(s, PatchNew(n), 0) = None

\* C3, as stated: from a file without the modal markup, P1 then P2 applies
\* the modal patches 5, 7, 8, 9 and 10 of P2; P2 then P1 finds none of them,
\* and the final file holds P1's modal block without P2's changes.
C3_Ordering ==
    \A i \in Runs :
        /\ P1ThenP2(i) => ModalMatched(i + 1) = ModalPatches
        /\ P2ThenP1(i) =>
              /\ ModalMatched(i) = {}
              /\ ModalBlockUnpatched(log[i + 1].disk["inventory"])

\* C3, amended: the same, for the runs of P1 in which Step 4 found the form
\* section and replaced it by the modal block; P2 before P1 finds none of
\* the modal patches in any case.
C3_OrderingWhenFormReplaced ==
    \A i \in Runs :
        /\ P1ThenP2(i) /\ FormReplaced(i) => ModalMatched(i + 1) = ModalPatches
        /\ P2ThenP1(i) => ModalMatched(i) = {}
        /\ P2ThenP1(i) /\ FormReplaced(i + 1) =>
              ModalBlockUnpatched(log[i + 1].disk["inventory"])

\* P1 replaced the form section of a page without modal markup, and P2 then
\* applied all five modal patches
C3_Witness ==
    \E i \in Runs :
        P1ThenP2(i) /\ FormReplaced(i) /\ ModalMatched(i + 1) = ModalPatches

(***************************************************************************)
(* C4: the closing boundary of the brace-balance scan.                     *)
(***************************************************************************)
\* the scan C4 describes: from the anchor line, where the count is 1, the
\* first later line at which the count of "{" minus "}" is zero or below
ClosingBody(st, ls, i) ==
    LET n == st.count + CountOpen(At(ls, i)) - CountClose(At(ls, i))
    IN  IF st.start = None
        THEN IF InLine("anchor_edit", At(ls, i))
             THEN [st EXCEPT !.start = i, !.count = 1]
             ELSE st
        ELSE IF n <= 0 THEN [st EXCEPT !.done = TRUE, !.end = i, !.count = n]
        ELSE [st EXCEPT !.count = n]

ClosingBoundary(ls) ==
    Loop(ClosingBody, ls, 0, Len(ls),
         [done |-> FALSE, start |-> None, end |-> None, count |-> 0]).end

AnchorLines(ls) == {i \in 0..(Len(ls) - 1) : InLine("anchor_edit", At(ls, i))}

\* C4: when remove-inline-edit.py has scanned a buffer with one anchor line,
\* the closing boundary it found is the first line after the anchor at which
\* the running brace count is back at zero or below.
C4_ClosingBoundary ==
    (script = "remove_inline_edit" /\ pc = "delete" /\ Cardinality(AnchorLines(lines)) = 1)
        => EditBounds(lines)[2] = ClosingBoundary(lines)

(***************************************************************************)
(* C5: the round trip of a file in which nothing matched.                  *)
(***************************************************************************)
\* C5: a run in which no locator rule matched leaves every byte of the
\* files as it was, line terminators and a missing final newline included.
C5_RoundTrip ==
    \A i \in Runs :
        (log[i].exc = "none" /\ log[i].matched = {}) => log[i].disk = DiskBefore(i)

(***************************************************************************)
(* C6, C7: reads, writes and read failures of one invocation.              *)
(***************************************************************************)
Range(s) == {s[j] : j \in 1..Len(s)}

\* C6: a run that failed to read a target file (it is missing or cannot be
\* read) has written no file: no completed write of the same invocation
\* comes before the read failure.
C6_NoWriteBeforeReadFailure ==
    \A i \in Runs : log[i].exc # "none" => log[i].wrote = <<>>

\* C7: every run opens exactly one path for writing, exactly once (looked
\* at for the runs that no read failure cut short).
C7_ExactlyOneWrite ==
    \A i \in Runs : log[i].exc = "none" => Len(log[i].wrote) = 1

(***************************************************************************)
(* C8: which line a substring locator picks.                               *)
(***************************************************************************)
\* is i the index of the first line of ls containing the needle
IsFirstLineWith(needle, ls, i) ==
    /\ i \in 0..(Len(ls) - 1)
    /\ InLine(needle, At(ls, i))
    /\ \A j \in 0..(i - 1) : ~InLine(needle, At(ls, j))

\* C8: the start index used by Step 2, Step 3 and Step 4 of
\* convert-modals.py and by remove-inline-edit.py is the index of the first
\* line containing the substring looked for.
C8_FirstLineUsed ==
    /\ (script = "convert_modals" /\ pc = "step3" /\ <<page, 2>> \in matched)
          => \E i \in 0..(Len(prevLines) - 1) :
                IsFirstLineWith("supabase", prevLines, i) /\ At(lines, i) = modal_ref
    /\ (script = "convert_modals" /\ pc = "step4" /\ <<page, 3>> \in matched)
          => \E i \in 0..(Len(prevLines) - 1) :
                /\ IsFirstLineWith(DepsAnchor(page), prevLines, i)
                /\ At(lines, i + 1) = scroll_lock_effect
    /\ (script = "convert_modals" /\ pc = "write" /\ <<page, 4>> \in matched)
          => IsFirstLineWith("form_marker", prevLines, FormBounds(prevLines)[1])
    /\ (script = "remove_inline_edit" /\ pc = "write" /\ <<page, 1>> \in matched)
          => IsFirstLineWith("anchor_edit", prevLines, EditBounds(prevLines)[1])

(***************************************************************************)
(* C9: how many occurrences one patch replaces.                            *)
(***************************************************************************)
\* the str patch applied last, as <<search text, replacement>>, or <<>> when
\* the latest step was none of the patches with a literal search text
LastPatch ==
    IF script = "update_inventory_edit" /\ pc \in {"patch", "write"} /\ k > 1
    THEN <<PatchOld(k - 1), PatchNew(k - 1)>>
    ELSE IF script = "convert_to_modal" /\ pc = "sub2"
    THEN <<pattern, pattern \o scroll_lock_effect>>
    ELSE IF script = "convert_to_modal" /\ pc = "sub3"
    THEN <<old_form, new_form>>
    ELSE IF script = "convert_to_modal" /\ pc = "sub4"
    THEN <<old_form_tag, new_form_tag>>
    ELSE <<>>

\* s with its first occurrence of old, if any, replaced by new
FirstReplaced(s, old, new) ==
    LET at == Find(s, old, 0)
    IN  IF at = None THEN s
        ELSE Slice(s, 0, at) \o Replacement(s, at, old, new)
             \o Slice(s, at + Len(old), Len(s))

\* s with its first match of the pattern head .*? tail, if any, replaced
\* by repl
FirstSpanReplaced(s, head, tail, repl) ==
    LET m == SpanMatch(s, head, tail)
    IN  IF m[1] = None THEN s
        ELSE Slice(s, 0, m[1]) \o repl \o Slice(s, m[2], Len(s))

\* C9: one application of a patch replaces the first occurrence of its
\* search text and leaves the other occurrences unchanged, for every patch
\* of update-inventory-edit.py and of convert-to-modal.py (the last patch
\* of convert-to-modal.py, old_buttons, is the pattern with '.*?').
C9_FirstOccurrenceOnly ==
    /\ LastPatch # <<>> =>
          content = FirstReplaced(prevContent, LastPatch[1], LastPatch[2])
    /\ (script = "convert_to_modal" /\ pc = "write") =>
          content = FirstSpanReplaced(prevContent, old_buttons_head,
                                      old_buttons_tail, new_buttons)

(***************************************************************************)
(* C10: Step 2 and Step 3 of convert-modals.py only insert.                *)
(***************************************************************************)
\* new is old with x inserted as element number at (0-based) and every
\* element of old kept, in order
InsertedAt(old, new, at, x) ==
    /\ Len(new) = Len(old) + 1
    /\ At(new, at) = x
    /\ \A j \in 0..(Len(old) - 1) : At(new, IF j < at THEN j ELSE j + 1) = At(old, j)

\* C10: Step 2 puts the modalRef declaration right before the first line
\* containing the createClient anchor, Step 3 puts the scroll-lock effect
\* right after the first line containing the dependency-array anchor, every
\* line of the buffer before the step is kept unmodified and in order, and
\* without an anchor line the step changes nothing.
C10_PureInsertions ==
    /\ (script = "convert_modals" /\ pc = "step3") =>
          IF \E i \in 0..(Len(prevLines) - 1) : InLine("supabase", At(prevLines, i))
          THEN \E i \in 0..(Len(prevLines) - 1) :
                  /\ IsFirstLineWith("supabase", prevLines, i)
                  /\ InsertedAt(prevLines, lines, i, modal_ref)
          ELSE lines = prevLines
    /\ (script = "convert_modals" /\ pc = "step4") =>
          IF \E i \in 0..(Len(prevLines) - 1) : InLine(DepsAnchor(page), At(prevLines, i))
          THEN \E i \in 0..(Len(prevLines) - 1) :
                  /\ IsFirstLineWith(DepsAnchor(page), prevLines, i)
                  /\ InsertedAt(prevLines, lines, i + 1, scroll_lock_effect)
          ELSE lines = prevLines

\* Step 3 has inserted the effect into a buffer with two anchor lines, after
\* Step 2 had inserted the declaration
C10_Witness ==
    /\ script = "convert_modals" /\ pc = "step4"
    /\ <<page, 2>> \in matched /\ <<page, 3>> \in matched
    /\ Cardinality({i \in 0..(Len(prevLines) - 1) :
                       InLine(DepsAnchor(page), At(prevLines, i))}) > 1

(***************************************************************************)
(* C11: the confirmation does not depend on what matched.                  *)
(***************************************************************************)
\* the pages a script rewrites in one invocation
PagesOf(s) == IF s = "convert_modals" THEN Pages ELSE {"inventory"}

\* everything a run of script s prints when no open() raises
FullOutput(s) ==
    IF s = "convert_modals"
    THEN <<Confirmation(s, "inventory"), Confirmation(s, "customers"),
           "ok_all_converted">>
    ELSE <<Confirmation(s, "inventory")>>

\* C11: in a run without I/O error every rule of the script is evaluated on
\* every page of the script whether or not earlier rules matched, the run
\* prints the same messages whatever set of rules matched (the empty set
\* included), and each confirmation is printed after the write of its page:
\* the j-th message of a run is the confirmation of the j-th page written.
C11_ConfirmationRegardless ==
    /\ \A i \in Runs :
          log[i].exc = "none" =>
              /\ log[i].tried = PagesOf(log[i].script) \X RulesOf(log[i].script)
              /\ log[i].out = FullOutput(log[i].script)
              /\ Range(log[i].wrote) = PagesOf(log[i].script)
    /\ \A j \in 1..Len(out) :
          (script # "none" /\ out[j] # "ok_all_converted") =>
              /\ j <= Len(wrote)
              /\ out[j] = Confirmation(script, wrote[j])
    /\ pc = "print" => Len(wrote) = Len(out) + 1

\* a run in which no rule matched, and a run in which some but not all rules
\* matched, both ended with the confirmation
C11_Witness ==
    /\ Len(log) = 2
    /\ log[1].exc = "none" /\ log[1].matched = {}
    /\ log[1].out = FullOutput(log[1].script)
    /\ log[2].exc = "none" /\ log[2].matched # {}
    /\ log[2].matched # log[2].tried
    /\ log[2].out = FullOutput(log[2].script)

(***************************************************************************)
(* C12: two invocations at once lose the first writer's update.            *)
(***************************************************************************)
\* the places in the history where the inventory file is read, opened for
\* writing, written
InvEvents(op) ==
    {j \in 1..Len(hist) : hist[j].page = "inventory" /\ hist[j].op = op}

SetMin(S) == CHOOSE x \in S : \A y \in S : x <= y
SetMax(S) == CHOOSE x \in S : \A y \in S : y <= x

\* two processes have both read the inventory file, to the read() that
\* returns b'', before either opened it for writing, and then each wrote it,
\* the first write block ending before the second began
BothReadThenBothWrote ==
    /\ Cardinality(InvEvents("read")) = 2
    /\ Cardinality(InvEvents("open")) = 2
    /\ Cardinality(InvEvents("write")) = 2
    /\ SetMax(InvEvents("read")) < SetMin(InvEvents("open"))
    /\ SetMin(InvEvents("write")) < SetMax(InvEvents("open"))
    /\ hist[SetMin(InvEvents("read"))].pid # hist[SetMax(InvEvents("read"))].pid
    /\ hist[SetMin(InvEvents("write"))].pid # hist[SetMax(InvEvents("write"))].pid

FirstWriter == hist[SetMin(InvEvents("write"))]
LastWriter == hist[SetMax(InvEvents("write"))]

\* C12: no lock is taken around the read-modify-write cycle, so two scripts
\* can both read the inventory file before either writes it; whenever they
\* do and then write one after the other, the file is, from the step that
\* ends the second write on, what the last writer alone makes of the file
\* both read: nothing of the first writer's output is in it.
C12_LostUpdate ==
    [][/\ (~BothReadThenBothWrote /\ BothReadThenBothWrote') =>
              disk'["inventory"] =
                  Output(LastWriter'.script, "inventory", orig'["inventory"], linesep')
       /\ BothReadThenBothWrote =>
              /\ BothReadThenBothWrote'
              /\ LastWriter' = LastWriter
              /\ disk'["inventory"] = disk["inventory"]
              /\ orig' = orig /\ linesep' = linesep]_vars

\* update-inventory-edit.py and remove-inline-edit.py both read the page,
\* update-inventory-edit.py wrote its patches, remove-inline-edit.py wrote
\* after it, both ended: the file is not what the two scripts make of the
\* page one after the other, and the first patch of update-inventory-edit.py,
\* which had matched, is not in it
C12_Witness ==
    /\ BothReadThenBothWrote
    /\ Len(log) = 2
    /\ FirstWriter.script = "update_inventory_edit"
    /\ LastWriter.script = "remove_inline_edit"
    /\ \E i \in Runs : /\ log[i].script = "update_inventory_edit"
                       /\ <<"inventory", 1>> \in log[i].matched
    /\ ~Has(disk["inventory"], PatchNew(1))
    /\ Has(Output("update_inventory_edit", "inventory", orig["inventory"], linesep),
           PatchNew(1))
    /\ disk["inventory"] #
          Output("remove_inline_edit", "inventory",
                 Output("update_inventory_edit", "inventory", orig["inventory"],
                        linesep), linesep)
    /\ disk["inventory"] # orig["inventory"]

(***************************************************************************)
(* C13: the scroll-lock effect of convert-to-modal.py.                     *)
(***************************************************************************)
\* the closing line of the setFilteredInventory effect, as the page has it
DepsLine == <<DepsAnchor("inventory")>>

\* C13: when the buffer holds the line '  }, [searchTerm, stockFilter,
\* inventory]);', the first re.sub of convert-to-modal.py puts the
\* scroll-lock effect right after the first occurrence of that line, once,
\* and changes nothing else.
C13_ScrollLockAfterDepsLine ==
    (/\ script = "convert_to_modal"
     /\ pc = "sub2"
     /\ Find(prevContent, DepsLine, 0) # None) =>
        LET at == Find(prevContent, DepsLine, 0)
        IN  content = Slice(prevContent, 0, at + 1) \o scroll_lock_effect
                      \o Slice(prevContent, at + 1, Len(prevContent))

(***************************************************************************)
(* C14: what remove-inline-edit.py deletes.                                *)
(***************************************************************************)
\* new is old without the lines a .. b-1 (0-based), every other line kept
DeletedRange(old, new, a, b) ==
    /\ 0 <= a /\ a < b /\ b <= Len(old)
    /\ new = Slice(old, 0, a) \o Slice(old, b, Len(old))

\* C14: whenever remove-inline-edit.py deletes lines, the deleted lines are
\* those from an anchor line '{editingTireId === tire.id ? (' up to, and not
\* including, the line two above the first '/* Regular View */' line at or
\* after that anchor; every line before the anchor, the Regular View line
\* and every line after it are kept as they were.
C14_DeletedRange ==
    (/\ script = "remove_inline_edit"
     /\ pc = "write"
     /\ lines # prevLines) =>
        \E a \in 0..(Len(prevLines) - 1), rv \in 0..(Len(prevLines) - 1) :
            /\ InLine("anchor_edit", At(prevLines, a))
            /\ a <= rv
            /\ InLine("regular_view", At(prevLines, rv))
            /\ \A j \in a..(rv - 1) : ~InLine("regular_view", At(prevLines, j))
            /\ DeletedRange(prevLines, lines, a, rv - 2)

(***************************************************************************)
(* C15: convert_inventory_page run twice.                                  *)
(***************************************************************************)
\* runs i and i + 1, the two that ended last, are runs of convert-modals.py
\* that both wrote the inventory page, and in run i every step found its
\* anchor on that page
TwiceAllAnchors(i) ==
    /\ script = "none"
    /\ i + 1 = Len(log)
    /\ log[i].script = "convert_modals"
    /\ log[i + 1].script = "convert_modals"
    /\ "inventory" \in Range(log[i].wrote)
    /\ "inventory" \in Range(log[i + 1].wrote)
    /\ \A r \in 1..4 : <<"inventory", r>> \in log[i].matched

\* what the second run does: Step 1 and Step 4 find nothing, Step 2 and Step
\* 3 insert the declaration and the effect once more, and the file differs
\* from the file after the first run
SecondRunInsertsOnly(i) ==
    /\ <<"inventory", 1>> \notin log[i + 1].matched
    /\ <<"inventory", 4>> \notin log[i + 1].matched
    /\ <<"inventory", 2>> \in log[i + 1].matched
    /\ <<"inventory", 3>> \in log[i + 1].matched
    /\ log[i + 1].disk["inventory"] # log[i].disk["inventory"]
    /\ LET once == ReadLines(log[i].disk["inventory"])
           twice == Decode(log[i + 1].disk["inventory"])
       IN  /\ FirstLine("form_marker", once) = None
           /\ twice = Flatten(Step3(Step2(once), "inventory"))
           /\ Occurrences(twice, modal_ref) >= 2
           /\ Occurrences(twice, scroll_lock_effect) >= 2

\* the lines of the file holding the form marker
MarkerLines(bytes) ==
    LET ls == ReadLines(bytes)
    IN  {j \in 0..(Len(ls) - 1) : InLine("form_marker", At(ls, j))}

\* C15, as stated: when convert_inventory_page runs twice on a file in which
\* all of its anchors match, the second run replaces no form region and
\* rewrites no import line, and inserts a second modalRef declaration and a
\* second scroll-lock effect.
C15_SecondRun ==
    \A i \in Runs : TwiceAllAnchors(i) => SecondRunInsertsOnly(i)

\* the buffer Step 4 of convert_inventory_page works on
Step4Input(bytes) ==
    Step3(Step2(Step1(ReadLines(bytes), "inventory")), "inventory")

\* the lines Step 2 and Step 3 inserted at are not in the range Step 4
\* replaces
AnchorsOutsideForm(bytes) ==
    LET ls == Step4Input(bytes)
        form == FormBounds(ls)
    IN  \A needle \in {"supabase", DepsAnchor("inventory")} :
            LET at == FirstLine(needle, ls)
            IN  /\ at # None
                /\ at < form[1] \/ at >= form[2]

\* C15, amended: the same for a file with one line holding the form marker
\* in which the createClient line and the dependency-array line that Step 2
\* and Step 3 insert at lie outside the form section that Step 4 replaces.
C15_SecondRunOneMarker ==
    \A i \in Runs :
        (/\ TwiceAllAnchors(i)
         /\ Cardinality(MarkerLines(DiskBefore(i)["inventory"])) = 1
         /\ AnchorsOutsideForm(DiskBefore(i)["inventory"]))
            => SecondRunInsertsOnly(i)

\* convert-modals.py ran twice on a page with one form marker
C15_Witness ==
    /\ TwiceAllAnchors(1)
    /\ Cardinality(MarkerLines(DiskBefore(1)["inventory"])) = 1
    /\ AnchorsOutsideForm(DiskBefore(1)["inventory"])
    /\ Occurrences(Decode(log[1].disk["inventory"]), modal_ref) = 1
    /\ Occurrences(Decode(disk["inventory"]), modal_ref) = 2

(***************************************************************************)
(* C16: update-inventory-edit.py run on its own output.                    *)
(***************************************************************************)
\* runs i and i + 1, the two that ended last, are complete runs of
\* update-inventory-edit.py
TwiceUpdate(i) ==
    /\ script = "none"
    /\ i + 1 = Len(log)
    /\ log[i].script = "update_inventory_edit"
    /\ log[i + 1].script = "update_inventory_edit"
    /\ log[i].exc = "none"
    /\ log[i + 1].exc = "none"

\* C16: for every input file, the file after two consecutive runs of
\* update-inventory-edit.py equals the file after one run, and in the second
\* run none of the ten search texts is found.
C16_SecondRunNoOp ==
    \A i \in Runs :
        TwiceUpdate(i) =>
            /\ log[i + 1].disk["inventory"] = log[i].disk["inventory"]
            /\ log[i + 1].matched = {}


\* update-inventory-edit.py ran twice on a page on which at least four of
\* its replacements were made: the second run found nothing and wrote the
\* same file
C16_Witness ==
    /\ TwiceUpdate(1)
    /\ Cardinality(log[1].matched) >= 4
    /\ log[1].disk["inventory"] # orig["inventory"]
    /\ log[2].matched = {}
    /\ log[2].disk["inventory"] = log[1].disk["inventory"]

(***************************************************************************)
(* C17: the header and the closing block of convert-to-modal.py.           *)
(***************************************************************************)
\* C17: in every file convert-to-modal.py writes, the new header block
\* (which opens the AnimatePresence element and the wrapper divs) is present
\* if and only if the new closing block (which closes them) is present.
C17_HeaderIffClosing ==
    \A i \in Runs :
        (log[i].script = "convert_to_modal" /\ log[i].exc = "none") =>
            (Has(log[i].disk["inventory"], new_form)
                <=> Has(log[i].disk["inventory"], new_buttons))

(***************************************************************************)
(* C18: brace balance across remove-inline-edit.py.                        *)
(***************************************************************************)
BalanceBody(st, ls, i) ==
    [done |-> FALSE, n |-> st.n + CountOpen(At(ls, i)) - CountClose(At(ls, i))]

\* the number of '{' minus the number of '}' in a list of lines
Balance(ls) == Loop(BalanceBody, ls, 0, Len(ls), [done |-> FALSE, n |-> 0]).n

\* C18: if the file remove-inline-edit.py read holds as many '{' as '}' and
\* the script deletes at least one line, the file it writes holds as many
\* '{' as '}'.
C18_BraceBalanceKept ==
    (/\ script = "remove_inline_edit"
     /\ pc = "write"
     /\ lines # prevLines
     /\ Balance(prevLines) = 0) => Balance(lines) = 0

(***************************************************************************)
(* C19: Step 4 of convert-modals.py at every index of the marker.          *)
(***************************************************************************)
\* line m holds the form marker and line c, more than ten positions after
\* it, holds the closing text
FormSection(ls, m, c) ==
    /\ InLine("form_marker", At(ls, m))
    /\ InLine("closer8", At(ls, c))
    /\ c > m + FormGap

\* C19: whenever the buffer of Step 4 holds a marker line and, more than ten
\* positions after it, a closing line, the lines from the marker through the
\* closing line are replaced by the modal block, at whatever index the
\* marker stands (index 0 included), and every other line is kept.
C19_FormReplacedAtAnyIndex ==
    (/\ script = "convert_modals"
     /\ pc = "write"
     /\ \E m, c \in 0..(Len(prevLines) - 1) : FormSection(prevLines, m, c)) =>
        \E m, c \in 0..(Len(prevLines) - 1) :
            /\ FormSection(prevLines, m, c)
            /\ lines = Slice(prevLines, 0, m) \o <<modal_form(page)>>
                       \o Slice(prevLines, c + 1, Len(prevLines))

====
